---- MODULE Spec2Model ----
(***************************************************************************)
(* A model of phukit: installing a container image onto an A/B            *)
(* partitioned disk and updating it in place.                              *)
(*                                                                         *)
(* Paths are sequences of one-character strings, so that the prefix,       *)
(* suffix and base-name operations of the code are computed, not assumed.  *)
(***************************************************************************)
EXTENDS Integers, Sequences, FiniteSets, TLC

VARIABLES
    disk,   \* what is persisted on the target device
    sys,    \* the running machine: where it booted from, its /proc/cmdline
    run,    \* the invocation in progress (install or update), or idle
    obs,    \* what the invocation has emitted and done so far
    call    \* a stand-alone call of the /etc merge (specification SpecMerge)

vars == <<disk, sys, run, obs, call>>

---------------------------------------------------------------------------
(* Strings as sequences of characters *)

HasPrefix(s, p) == Len(s) >= Len(p) /\ SubSeq(s, 1, Len(p)) = p

HasSuffix(s, p) == Len(s) >= Len(p) /\ SubSeq(s, Len(s) - Len(p) + 1, Len(s)) = p

TrimSuffix(s, p) == IF HasSuffix(s, p) THEN SubSeq(s, 1, Len(s) - Len(p)) ELSE s

TrimPrefix(s, p) == IF HasPrefix(s, p) THEN SubSeq(s, Len(p) + 1, Len(s)) ELSE s

\* filepath.Base for a path that does not end in a separator
Base(path) ==
    LET slashes == {i \in 1..Len(path) : path[i] = "/"}
    IN  IF slashes = {} THEN path
        ELSE LET last == CHOOSE i \in slashes : \A j \in slashes : j <= i
             IN  SubSeq(path, last + 1, Len(path))

DevDir == <<"/", "d", "e", "v", "/">>

Digits == {"0", "1", "2", "3", "4", "5", "6", "7", "8", "9"}

Digit(n) == CASE n = 1 -> "1" [] n = 2 -> "2" [] n = 3 -> "3" [] n = 4 -> "4" [] n = 5 -> "5"

\* the devices an operator may name
Devices ==
    { DevDir \o <<"s", "d", "a">>,
      DevDir \o <<"n", "v", "m", "e", "0", "n", "1">> }

PartNums == 1..5

---------------------------------------------------------------------------
(* Partition naming *)

UsesPInfix(device) ==
    LET deviceBase == Base(device)
    IN  \/ HasPrefix(deviceBase, <<"n", "v", "m", "e">>)
        \/ HasPrefix(deviceBase, <<"m", "m", "c", "b", "l", "k">>)
        \/ HasPrefix(deviceBase, <<"l", "o", "o", "p">>)

PartPath(device, n) ==
    IF UsesPInfix(device) THEN device \o <<"p", Digit(n)>> ELSE device \o <<Digit(n)>>

SchemeOf(device) ==
    [ EFIPartition   |-> PartPath(device, 1),
      BootPartition  |-> PartPath(device, 2),
      Root1Partition |-> PartPath(device, 3),
      Root2Partition |-> PartPath(device, 4),
      VarPartition   |-> PartPath(device, 5) ]

NoScheme ==
    [ EFIPartition |-> <<>>, BootPartition |-> <<>>, Root1Partition |-> <<>>,
      Root2Partition |-> <<>>, VarPartition |-> <<>> ]

\* the node the kernel creates for partition n of a device
KernelNode(device, n) ==
    IF device[Len(device)] \in Digits THEN device \o <<"p", Digit(n)>>
    ELSE device \o <<Digit(n)>>

\* what os.Stat of a partition path may return: nil, ENOENT, or another
\* error (ENOTDIR when the device path leads through a non-directory)
StatOutcomes == {"ok", "ENOENT", "ENOTDIR"}

IsNotExist(err) == err = "ENOENT"

\* os.Stat of the five partition paths of a device whose nodes are given
StatNodes(device, nodes) ==
    [n \in PartNums |-> IF PartPath(device, n) \in nodes THEN "ok" ELSE "ENOENT"]

\* stat[n] is what os.Stat returns for the n-th partition path
DetectExistingPartitionScheme(device, stat) ==
    IF \E n \in PartNums : IsNotExist(stat[n])
    THEN [err |-> "partition does not exist", scheme |-> NoScheme]
    ELSE [err |-> "", scheme |-> SchemeOf(device)]

\* the names CreatePartitions gives the partitions it has made
CreatedScheme(device) ==
    LET deviceBase == Base(device)
        infix == IF \/ HasPrefix(deviceBase, <<"n", "v", "m", "e">>)
                    \/ HasPrefix(deviceBase, <<"m", "m", "c", "b", "l", "k">>)
                    \/ HasPrefix(deviceBase, <<"l", "o", "o", "p">>)
                 THEN <<"p">> ELSE <<>>
    IN  [ EFIPartition   |-> device \o infix \o <<"1">>,
          BootPartition  |-> device \o infix \o <<"2">>,
          Root1Partition |-> device \o infix \o <<"3">>,
          Root2Partition |-> device \o infix \o <<"4">>,
          VarPartition   |-> device \o infix \o <<"5">> ]

\* the plan CreatePartitions returns with dry-run: "/dev/" + base + number
DryRunScheme(device) ==
    LET deviceBase == Base(device)
    IN  [ EFIPartition   |-> DevDir \o deviceBase \o <<"1">>,
          BootPartition  |-> DevDir \o deviceBase \o <<"2">>,
          Root1Partition |-> DevDir \o deviceBase \o <<"3">>,
          Root2Partition |-> DevDir \o deviceBase \o <<"4">>,
          VarPartition   |-> DevDir \o deviceBase \o <<"5">> ]

\* CreatePartitions(device, dryRun); outcome: "ok", "sgdisk" (an sgdisk call
\* fails) or "probe" (partprobe or udevadm settle fails, which is a warning)
CreatePartitionsResult(device, dryRun, outcome) ==
    IF dryRun THEN [err |-> "", scheme |-> DryRunScheme(device)]
    ELSE IF outcome = "sgdisk" THEN [err |-> "failed to run sgdisk", scheme |-> NoScheme]
    ELSE [err |-> "", scheme |-> CreatedScheme(device)]

---------------------------------------------------------------------------
(* The /etc trees: the new image's /etc and the store /var/etc.            *)
(* A relative path is a sequence of names.  An entry is absent, a regular  *)
(* file with its data, a directory, or a symbolic link.  A link either     *)
(* leaves the tree ("at" empty; "to" is what following it yields where the *)
(* merge runs: 0 when the target and its directory are missing, else the   *)
(* target file's data) or names a path of the same tree ("at").            *)

MaxData == 2

EtcPaths == { <<"os-release">>, <<"sub">>, <<"sub", "cfg">> }

\* filepath.Walk visits a directory before its children, names in lexical order
WalkOrder == << <<"os-release">>, <<"sub">>, <<"sub", "cfg">> >>

Absent == [kind |-> "none"]

File(d) == [kind |-> "file", data |-> d]

Dir == [kind |-> "dir"]

Link(t) == [kind |-> "link", to |-> t, at |-> <<>>]

LinkIn(p) == [kind |-> "link", to |-> 0, at |-> p]

\* the paths a link of the store may name inside the store
InTargets == { <<"sub", "cfg">> }

Entries == {Absent, Dir} \cup {File(d) : d \in 1..MaxData} \cup {Link(t) : t \in 0..MaxData}

StoreEntries == Entries \cup {LinkIn(q) : q \in InTargets}

Parent(p) == SubSeq(p, 1, Len(p) - 1)

BaseName(p) == p[Len(p)]

\* the strict ancestors of p inside the tree, nearest to the root first
Ancestors(p) == [i \in 1..(Len(p) - 1) |-> SubSeq(p, 1, i)]

IsInLink(e) == e.kind = "link" /\ e.at # <<>>

\* children only under directories; an inside link names another branch,
\* where a regular file is or may be created
WellFormed(t) ==
    /\ \A p \in EtcPaths : (Len(p) > 1 /\ t[p].kind # "none") => t[Parent(p)].kind = "dir"
    /\ \A p \in EtcPaths : IsInLink(t[p]) =>
          /\ p # t[p].at /\ p # Parent(t[p].at)
          /\ t[t[p].at].kind \in {"none", "file"}

\* the /etc trees an image may ship
Trees == {t \in [EtcPaths -> Entries] : WellFormed(t)}

\* the trees /var/etc may hold
StoreTrees == {t \in [EtcPaths -> StoreEntries] : WellFormed(t)}

EmptyTree == [p \in EtcPaths |-> Absent]

\* /var/etc on the var partition: missing, or a directory holding a tree
NoEtc == [exists |-> FALSE, tree |-> EmptyTree]

EtcDir(t) == [exists |-> TRUE, tree |-> t]

DirsOk(t, p) == \A i \in DOMAIN Ancestors(p) : t[Ancestors(p)[i]].kind = "dir"

\* what reading through a link yields: the target file's data, 0 if it does not resolve
LinkData(t, e) ==
    IF e.at = <<>> THEN e.to
    ELSE IF DirsOk(t, e.at) /\ t[e.at].kind = "file" THEN t[e.at].data ELSE 0

Missing(t, e) == e.kind = "none" \/ (e.kind = "link" /\ LinkData(t, e) = 0)

\* os.Stat of a path of the tree: "ok", "ENOENT" or "ENOTDIR" (symlinks followed)
Stat(t, p) ==
    LET anc == Ancestors(p)
        bad == {i \in DOMAIN anc : t[anc[i]].kind # "dir"}
    IN  IF bad # {}
        THEN IF Missing(t, t[anc[CHOOSE i \in bad : \A j \in bad : i <= j]])
             THEN "ENOENT" ELSE "ENOTDIR"
        ELSE IF Missing(t, t[p]) THEN "ENOENT" ELSE "ok"

\* systemFiles: the names that always come from the container
SystemFiles == {"os-release"}

RECURSIVE MkdirAllFrom(_, _, _)
\* os.MkdirAll: make every missing directory of p, root first; stops at the
\* first component that exists and is no directory
MkdirAllFrom(t, p, i) ==
    IF i > Len(p) THEN t
    ELSE LET q == SubSeq(p, 1, i)
         IN  CASE t[q].kind = "dir"  -> MkdirAllFrom(t, p, i + 1)
               [] t[q].kind = "none" -> MkdirAllFrom([t EXCEPT ![q] = Dir], p, i + 1)
               [] OTHER -> t

MkdirAll(t, p) == IF Len(p) = 0 THEN t ELSE MkdirAllFrom(t, p, 1)

\* os.OpenFile(dst, O_WRONLY|O_CREATE|O_TRUNC) followed by the write of data:
\* a link at dst is followed, so the file written is the link's target
WriteThrough(t, dst, data) ==
    LET e == t[dst]
    IN  IF ~DirsOk(t, dst) THEN [tree |-> t, err |-> TRUE]
        ELSE CASE e.kind \in {"none", "file"} -> [tree |-> [t EXCEPT ![dst] = File(data)], err |-> FALSE]
               [] e.kind = "dir" -> [tree |-> t, err |-> TRUE]
               [] e.kind = "link" /\ e.at = <<>> ->
                    IF e.to = 0 THEN [tree |-> t, err |-> TRUE]
                    ELSE [tree |-> [t EXCEPT ![dst] = Link(data)], err |-> FALSE]
               [] OTHER ->
                    IF DirsOk(t, e.at) /\ t[e.at].kind \in {"none", "file"}
                    THEN [tree |-> [t EXCEPT ![e.at] = File(data)], err |-> FALSE]
                    ELSE [tree |-> t, err |-> TRUE]

\* copyFile(src, dst): src is the image's entry (never a directory), dst a path
\* of the store.  os.Open(src) follows links and fails when nothing is there.
CopyFile(src, t, dst) ==
    LET data == IF src.kind = "file" THEN src.data ELSE src.to
    IN  IF data = 0 THEN [tree |-> t, err |-> TRUE] ELSE WriteThrough(t, dst, data)

\* the walk callback of MergeEtcFromActive for one path of the image's /etc;
\* st is [tree, warned]: the store so far and the paths a warning was printed for
MergeVisit(img, st, relPath) ==
    LET info == img[relPath]
        t == st.tree
    IN  IF info.kind = "none" THEN st
        ELSE IF BaseName(relPath) \in SystemFiles
        THEN IF info.kind = "dir" THEN st
             ELSE LET c == CopyFile(info, t, relPath)
                  IN  [tree |-> c.tree,
                       warned |-> IF c.err THEN st.warned \cup {relPath} ELSE st.warned]
        ELSE IF Stat(t, relPath) = "ENOENT"
        THEN IF info.kind = "dir"
             THEN [st EXCEPT !.tree = MkdirAll(t, relPath)]
             ELSE LET c == CopyFile(info, MkdirAll(t, Parent(relPath)), relPath)
                  IN  [tree |-> c.tree,
                       warned |-> IF c.err THEN st.warned \cup {relPath} ELSE st.warned]
        ELSE st

RECURSIVE MergeWalk(_, _, _)
MergeWalk(img, st, i) ==
    IF i > Len(WalkOrder) THEN st
    ELSE MergeWalk(img, MergeVisit(img, st, WalkOrder[i]), i + 1)

\* the part of MergeEtcFromActive that works on the mounted /var partition:
\* seed /var/etc from the container when it is missing (rsync -a keeps links
\* as links), else merge into it
MergeEtc(img, store) ==
    IF ~store.exists
    THEN [tree |-> img, warned |-> {}]
    ELSE MergeWalk(img, [tree |-> store.tree, warned |-> {}], 1)

---------------------------------------------------------------------------
(* Images, boot entries and the disk *)

MaxKver == 2

\* a container image: the kernel version it ships under /usr/lib/modules and
\* whether it ships /usr/bin/bootctl
Images == [kver : 1..MaxKver, bootctl : BOOLEAN]

NoImage == [kver |-> 0, bootctl |-> FALSE]

\* the /etc an image ships
ImageEtc(img) ==
    [p \in EtcPaths |->
        CASE p = <<"os-release">> -> File(img.kver)
          [] p = <<"sub">> -> Dir
          [] p = <<"sub", "cfg">> -> File(1)]

\* a field of a kernel command line: a key with its value, or root=/dev/<node>
Tok(k, v) == [key |-> k, val |-> v, path |-> <<>>]

DevTok(node) == [key |-> "root=/dev/", val |-> "", path |-> node]

\* the kernel arguments an operator may give with --karg
KernelArgSets == { <<>>, <<Tok("quiet", "")>> }

UuidOf(n) ==
    CASE n = 1 -> "uuid-efi" [] n = 2 -> "uuid-boot" [] n = 3 -> "uuid-root1"
      [] n = 4 -> "uuid-root2" [] n = 5 -> "uuid-var"

NoEntry == [title |-> "", linux |-> 0, options |-> <<>>]

Entry(title, kver, options) == [title |-> title, linux |-> kver, options |-> options]

NoConfig == [ImageRef |-> NoImage, Device |-> <<>>, KernelArgs |-> <<>>, BootloaderType |-> ""]

\* a root filesystem: "empty", "partial" (a clear or an extraction stopped
\* half way) or "full"; the image it holds, the etc.mount unit, config.json.
\* On the boot side, efi is 0 without EFI binaries (EFI/BOOT/BOOTX64.EFI and
\* the bootloader's own), else the kernel version of the image they were put
\* in place with.  fstab is 0 when the root's /etc/fstab is not one written by
\* CreateFstab, else the root partition whose entry it leaves uncommented.
\* grub and loader say whether the boot partition holds the directories grub
\* (or grub2) and loader; family is the bootloader Install put in place
EmptyRoot ==
    [content |-> "empty", image |-> NoImage, unit |-> FALSE, config |-> NoConfig, fstab |-> 0]

EmptyBoot ==
    [kernels |-> {}, grub |-> FALSE, loader |-> FALSE, efi |-> 0, family |-> "",
     grubCfg |-> <<>>, bootc |-> NoEntry, previous |-> NoEntry]

BlankDisk ==
    [ nodes  |-> {},
      fs     |-> [n \in PartNums |-> FALSE],
      root   |-> [n \in {3, 4} |-> EmptyRoot],
      boot   |-> EmptyBoot,
      varEtc |-> NoEtc,
      pristine |-> FALSE ]

\* the partition number behind a device node of the target device, 0 if none
PartOf(device, node) ==
    IF \E n \in PartNums : KernelNode(device, n) = node
    THEN CHOOSE n \in PartNums : KernelNode(device, n) = node
    ELSE 0

\* blkid -s UUID -o value <partition>, when blkid itself works
BlkidUuid(d, device, node) ==
    LET n == PartOf(device, node)
    IN  IF node \in d.nodes /\ n # 0 /\ d.fs[n] THEN UuidOf(n) ELSE ""

\* blkid -U <uuid>, when blkid itself works: the node path, or <<>> if none
BlkidFind(d, device, uuid) ==
    LET hits == {n \in PartNums : KernelNode(device, n) \in d.nodes /\ d.fs[n] /\ UuidOf(n) = uuid}
    IN  IF hits = {} THEN <<>> ELSE KernelNode(device, CHOOSE n \in hits : TRUE)


---------------------------------------------------------------------------
(* The stand-alone merge: the image's /etc and /var/etc are drawn from the *)
(* bounded trees, and one call of the merge is applied to them.            *)

IdleEtc ==
    [pc |-> "idle", img |-> EmptyTree, store |-> NoEtc, out |-> NoEtc, again |-> NoEtc,
     warned |-> {}, err |-> ""]

EtcCall(img, store) ==
    [pc |-> "call", img |-> img, store |-> store, out |-> store, again |-> NoEtc,
     warned |-> {}, err |-> ""]

\* MergeEtcFromActive from where /var is mounted up to the end of the walk;
\* the walk callback returns nil always, so the walk reports no error
EtcMergeCall ==
    /\ call.pc = "call"
    /\ LET r == MergeEtc(call.img, call.store)
       IN  call' = [call EXCEPT !.pc = "returned", !.out = EtcDir(r.tree), !.warned = r.warned]
    /\ UNCHANGED <<disk, sys, run, obs>>

\* the next update runs the merge with the same image against the /var/etc
\* the first one left
EtcMergeAgain ==
    /\ call.pc = "returned"
    /\ call' = [call EXCEPT !.pc = "again", !.again = EtcDir(MergeEtc(call.img, call.out).tree)]
    /\ UNCHANGED <<disk, sys, run, obs>>


---------------------------------------------------------------------------
(* The machine, an invocation, and what it has emitted *)

MaxInstalls == 2

MaxUpdates == 2

\* installs and updates together
MaxRuns == 3

\* /proc/cmdline of the live environment an installation is run from
LiveCmdline == <<Tok("rd.live.image", "")>>

\* what an operator may answer to "Type 'yes' to continue: "
Responses == {"yes", "YES", ""}

IdleRun ==
    [ kind |-> "idle", pc |-> "idle", device |-> <<>>, image |-> NoImage,
      dryRun |-> FALSE, force |-> FALSE, json |-> FALSE,
      kargs |-> <<>>, scheme |-> NoScheme, Target |-> <<>>, Active |-> FALSE,
      err |-> "" ]

\* warnings printed, steps that changed the machine, steps of Update that
\* returned without error, the prompt and its answer, the completion event,
\* the disk, the mounts and the booted root as the invocation found them,
\* the mount points it mounted and those it ran umount on, whether a umount
\* of its teardown failed, the umount calls of UnmountPartitions in order,
\* how many times Output.Complete was called, and whether the OutputWriter
\* was called again after it (each call is one event in JSON mode)
NoObs ==
    [ warnings |-> {}, ops |-> {}, passed |-> {}, asked |-> FALSE, resp |-> "",
      complete |-> "", pre |-> BlankDisk, mounted |-> <<>>, booted |-> 0,
      made |-> {}, tried |-> {}, umountFailed |-> FALSE, attempts |-> <<>>,
      completes |-> 0, later |-> FALSE ]

\* an error that is recorded while the invocation carries on where it was
FailAndCarryOn(r, e) == [r EXCEPT !.err = e]

\* the invocation returns an error from the orchestrator
Fail(r, e) == [r EXCEPT !.pc = "done", !.err = e]

\* mount <node> <dir>: needs the node and a filesystem on it
MountOk(d, device, node) ==
    node \in d.nodes /\ PartOf(device, node) # 0 /\ d.fs[PartOf(device, node)]

Mount(n, at) == [part |-> n, at |-> at]

\* umount <dir>: drops the mount at dir, if any
Umount(mounts, at) == SelectSeq(mounts, LAMBDA m : m.at # at)

---------------------------------------------------------------------------
(* Which root is active *)

RootFields(cmdline) == {i \in DOMAIN cmdline : cmdline[i].key \in {"root=UUID=", "root=/dev/"}}

findPartitionByUUID(uuid, blkidOk, d, device) ==
    LET node == BlkidFind(d, device, uuid)
    IN  IF ~blkidOk \/ node = <<>>
        THEN [err |-> "failed to find partition with UUID", path |-> <<>>]
        ELSE [err |-> "", path |-> node]

\* readable: whether /proc/cmdline can be read; blkidOk: whether blkid runs
GetActiveRootPartition(cmdline, readable, blkidOk, d, device) ==
    IF ~readable THEN [err |-> "failed to read /proc/cmdline", path |-> <<>>]
    ELSE IF RootFields(cmdline) = {}
    THEN [err |-> "could not determine active root partition from kernel command line", path |-> <<>>]
    ELSE LET first == CHOOSE i \in RootFields(cmdline) : \A j \in RootFields(cmdline) : i <= j
             field == cmdline[first]
         IN  IF field.key = "root=UUID="
             THEN findPartitionByUUID(field.val, blkidOk, d, device)
             ELSE [err |-> "", path |-> field.path]

\* GetInactiveRootPartition without its second case
GetInactiveRootPartitionSwapped(scheme, active) ==
    IF active.err # ""
    THEN [target |-> scheme.Root2Partition, active |-> TRUE, err |-> "",
          warnings |-> {"could not determine active partition", "Defaulting to root2 as target"}]
    ELSE [target |-> scheme.Root2Partition, active |-> TRUE, err |-> "", warnings |-> {}]

\* active is the result of GetActiveRootPartition
GetInactiveRootPartition(scheme, active) ==
    IF active.err # ""
    THEN [target |-> scheme.Root2Partition, active |-> TRUE, err |-> "",
          warnings |-> {"could not determine active partition", "Defaulting to root2 as target"}]
    ELSE LET activeBase == Base(active.path)
             root1Base == Base(scheme.Root1Partition)
             root2Base == Base(scheme.Root2Partition)
         IN  CASE activeBase = root1Base ->
                    [target |-> scheme.Root2Partition, active |-> TRUE, err |-> "", warnings |-> {}]
               [] activeBase = root2Base ->
                    [target |-> scheme.Root1Partition, active |-> FALSE, err |-> "", warnings |-> {}]
               [] OTHER ->
                    [target |-> scheme.Root2Partition, active |-> TRUE, err |-> "",
                     warnings |-> {"active partition does not match either root partition",
                                   "Defaulting to root2 as target"}]


---------------------------------------------------------------------------
(* Bootloader configuration written by an update *)

\* blkid -s UUID -o value <partition>
GetPartitionUUID(d, device, node, blkidOk) ==
    LET uuid == BlkidUuid(d, device, node)
    IN  IF ~blkidOk \/ uuid = "" THEN [uuid |-> "", err |-> "failed to get UUID"]
        ELSE [uuid |-> uuid, err |-> ""]

\* kernels[0] of the glob vmlinuz-*: the lexically first version
FirstKernel(kernels) == CHOOSE k \in kernels : \A j \in kernels : k <= j

\* a previous root taken without looking at the Active flag
ActiveRootIgnoringFlag(r) == r.scheme.Root2Partition

\* the root Update treats as active before it: Root1 when Active, else Root2
ActiveRootOf(r) == IF r.Active THEN r.scheme.Root1Partition ELSE r.scheme.Root2Partition

\* wr: how many of the files to write are written before a write fails
updateGRUBBootloader(d, r, tOk, aOk, wr) ==
    LET target == GetPartitionUUID(d, r.device, r.Target, tOk)
        activeUUID == GetPartitionUUID(d, r.device, ActiveRootOf(r), aOk).uuid
        kernelCmdline == <<Tok("root=UUID=", target.uuid), Tok("ro", ""), Tok("console=tty0", "")>> \o r.kargs
    IN  IF target.err # "" THEN [boot |-> d.boot, err |-> "failed to get target UUID"]
        ELSE IF d.boot.kernels = {} THEN [boot |-> d.boot, err |-> "no kernel found in /boot"]
        ELSE IF ~d.boot.grub THEN [boot |-> d.boot, err |-> "could not find grub directory"]
        ELSE IF wr = 0 THEN [boot |-> d.boot, err |-> "failed to write grub.cfg"]
        ELSE [boot |-> [d.boot EXCEPT !.grubCfg =
                          << Entry("os", FirstKernel(d.boot.kernels), kernelCmdline),
                             Entry("os (Previous)", FirstKernel(d.boot.kernels),
                                   <<Tok("root=UUID=", activeUUID), Tok("ro", ""), Tok("console=tty0", "")>>) >>],
              err |-> ""]

updateSystemdBootBootloader(d, r, tOk, aOk, wr) ==
    LET target == GetPartitionUUID(d, r.device, r.Target, tOk)
        activeUUID == GetPartitionUUID(d, r.device, ActiveRootOf(r), aOk).uuid
        kernelCmdline == <<Tok("root=UUID=", target.uuid), Tok("rw", "")>> \o r.kargs
        mainEntry == Entry("os", FirstKernel(d.boot.kernels), kernelCmdline)
        previousEntry == Entry("os (Previous)", FirstKernel(d.boot.kernels),
                               <<Tok("root=UUID=", activeUUID), Tok("ro", "")>>)
    IN  IF target.err # "" THEN [boot |-> d.boot, err |-> "failed to get target UUID"]
        ELSE IF d.boot.kernels = {} THEN [boot |-> d.boot, err |-> "no kernel found in /boot"]
        ELSE IF wr = 0 THEN [boot |-> d.boot, err |-> "failed to write main boot entry"]
        ELSE IF wr = 1
        THEN [boot |-> [d.boot EXCEPT !.bootc = mainEntry], err |-> "failed to write rollback boot entry"]
        ELSE [boot |-> [d.boot EXCEPT !.bootc = mainEntry, !.previous = previousEntry], err |-> ""]

detectBootloaderType(boot) == IF boot.loader THEN "systemd-boot" ELSE "grub2"

\* an update of the bootloader that also copies the new image's EFI binaries
UpdateBootloaderAndEfi(d, r, mountOk, tOk, aOk, wr) ==
    IF ~(mountOk /\ MountOk(d, r.device, r.scheme.BootPartition)
                 /\ MountOk(d, r.device, r.scheme.EFIPartition))
    THEN [boot |-> d.boot, err |-> "failed to mount boot partition"]
    ELSE LET b == IF detectBootloaderType(d.boot) = "grub2"
                  THEN updateGRUBBootloader(d, r, tOk, aOk, wr)
                  ELSE updateSystemdBootBootloader(d, r, tOk, aOk, wr)
         IN  [b EXCEPT !.boot.efi = d.root[PartOf(r.device, r.Target)].image.kver]

\* mountOk: whether the boot and EFI partitions mount
UpdateBootloader(d, r, mountOk, tOk, aOk, wr) ==
    IF ~(mountOk /\ MountOk(d, r.device, r.scheme.BootPartition)
                 /\ MountOk(d, r.device, r.scheme.EFIPartition))
    THEN [boot |-> d.boot, err |-> "failed to mount boot partition"]
    ELSE IF detectBootloaderType(d.boot) = "grub2"
    THEN updateGRUBBootloader(d, r, tOk, aOk, wr)
    ELSE updateSystemdBootBootloader(d, r, tOk, aOk, wr)

\* the partition suffixes MergeEtcFromActive strips, in its order
StripSuffixes == << <<"p", "2">>, <<"p", "3">>, <<"2">>, <<"3">> >>

RECURSIVE StripFrom(_, _)
StripFrom(device, i) ==
    IF i > Len(StripSuffixes) THEN device
    ELSE StripFrom(TrimSuffix(device, StripSuffixes[i]), i + 1)

\* the device MergeEtcFromActive derives from the active root partition
DeriveDevice(activeRootPartition) == StripFrom(activeRootPartition, 1)


---------------------------------------------------------------------------
(* Faults: a command, a system call or a write of the environment failing. *)
(* A behaviour holds at most MaxFaults of them.                            *)

MaxFaults == 1

\* the outcomes a step may draw: failure only while faults are left
Oks == IF sys.faults < MaxFaults THEN BOOLEAN ELSE {TRUE}

\* how many of k calls in a row succeed
Upto(k) == IF sys.faults < MaxFaults THEN 0..k ELSE {k}

N(ok) == IF ok THEN 0 ELSE 1

Charged(n) == [sys EXCEPT !.faults = @ + n]

---------------------------------------------------------------------------
(* PerformUpdate, one action per step.  An option of the invocation is     *)
(* drawn where the code first reads it.                                    *)

At(kind, pc) == run.kind = kind /\ run.pc = pc

Did(op) == [obs EXCEPT !.ops = @ \cup {op}]

\* Output.Log, Output.Warning: one more call on the OutputWriter
Logged(o) == [o EXCEPT !.later = @ \/ o.completes > 0]

Passed(o, step, ok) == IF ok THEN [o EXCEPT !.passed = @ \cup {step}] ELSE o

TargetPart == PartOf(run.device, run.Target)

\* the operator starts "phukit update" on the machine's disk
StartUpdate ==
    /\ run.kind = "idle"
    /\ sys.updates < MaxUpdates /\ sys.installs + sys.updates < MaxRuns
    /\ \E dryRun \in BOOLEAN :
          run' = [IdleRun EXCEPT !.kind = "update", !.pc = "prepare", !.device = sys.device,
                                 !.dryRun = dryRun]
    /\ obs' = [NoObs EXCEPT !.pre = disk, !.mounted = sys.mounts, !.booted = sys.booted]
    /\ sys' = [sys EXCEPT !.updates = @ + 1]
    /\ UNCHANGED <<disk, call>>

\* PrepareUpdate (CheckPodmanAvailable before it always returns nil)
PrepareUpdate ==
    /\ At("update", "prepare")
    /\ LET det == DetectExistingPartitionScheme(run.device, StatNodes(run.device, disk.nodes))
       IN  IF det.err # ""
           THEN /\ run' = Fail(run, "failed to detect partition scheme")
                /\ UNCHANGED <<obs, sys>>
           ELSE \E readable \in Oks, blkidOk \in Oks :
                  LET active == GetActiveRootPartition(sys.cmdline, readable, blkidOk, disk, run.device)
                      res == GetInactiveRootPartition(det.scheme, active)
                  IN  /\ N(readable) + N(blkidOk) <= MaxFaults - sys.faults
                      /\ run' = [run EXCEPT !.scheme = det.scheme, !.Target = res.target,
                                            !.Active = res.active, !.pc = "pull"]
                      /\ obs' = [obs EXCEPT !.warnings = @ \cup res.warnings]
                      /\ sys' = Charged(N(readable) + N(blkidOk))
    /\ UNCHANGED <<disk, call>>

\* SystemUpdater.PullImage, skipped with --skip-pull
UpdatePullImage ==
    /\ At("update", "pull")
    /\ \E skipPull \in BOOLEAN, ok \in Oks :
          /\ skipPull \/ run.dryRun => ok
          /\ run' = IF ok THEN [run EXCEPT !.pc = "confirm"] ELSE Fail(run, "failed to access image")
          /\ sys' = Charged(N(ok))
    /\ UNCHANGED <<disk, obs, call>>

\* the prompt of PerformUpdate, which --force and dry-run skip
UpdateConfirm ==
    /\ At("update", "confirm")
    /\ \E force \in BOOLEAN :
          IF ~run.dryRun /\ ~force
          THEN \E response \in Responses :
                 /\ obs' = [obs EXCEPT !.asked = TRUE, !.resp = response]
                 /\ run' = IF response # "yes"
                           THEN Fail([run EXCEPT !.force = force], "update cancelled by user")
                           ELSE [run EXCEPT !.force = force, !.pc = "update"]
          ELSE /\ run' = [run EXCEPT !.force = force, !.pc = "update"]
               /\ obs' = obs
    /\ UNCHANGED <<disk, sys, call>>

\* Update that mounts the target whether or not dry-run is set
UpdateMountAlways ==
    /\ At("update", "update")
    /\ \E ok \in Oks :
          IF ok /\ MountOk(disk, run.device, run.Target)
          THEN /\ sys' = [sys EXCEPT !.mounts = Append(@, Mount(TargetPart, "/tmp/phukit-update"))]
               /\ obs' = [Passed(Did("mount"), "mount", TRUE) EXCEPT !.made = @ \cup {"/tmp/phukit-update"}]
               /\ run' = [run EXCEPT !.pc = "clear"]
          ELSE /\ run' = Fail(run, "failed to mount target partition")
               /\ sys' = Charged(N(ok))
               /\ obs' = obs
    /\ UNCHANGED <<disk, call>>

\* Update up to the mount of the target partition; with dry-run it only logs
UpdateMount ==
    /\ At("update", "update")
    /\ IF run.dryRun
       THEN /\ run' = [run EXCEPT !.pc = "done"]
            /\ UNCHANGED <<sys, obs>>
       ELSE \E ok \in Oks :
              IF ok /\ MountOk(disk, run.device, run.Target)
              THEN /\ sys' = [sys EXCEPT !.mounts = Append(@, Mount(TargetPart, "/tmp/phukit-update"))]
                   /\ obs' = [Passed(Did("mount"), "mount", TRUE) EXCEPT !.made = @ \cup {"/tmp/phukit-update"}]
                   /\ run' = [run EXCEPT !.pc = "clear"]
              ELSE /\ run' = Fail(run, "failed to mount target partition")
                   /\ sys' = Charged(N(ok))
                   /\ obs' = obs
    /\ UNCHANGED <<disk, call>>

\* a clearing after which Update extracts whether or not the removal failed
UpdateClearThenGoOn ==
    /\ At("update", "clear")
    /\ \E ok \in Oks :
          /\ disk' = [disk EXCEPT !.root[TargetPart] =
                        IF ok \/ @.content = "empty" THEN EmptyRoot ELSE [@ EXCEPT !.content = "partial"]]
          /\ run' = [run EXCEPT !.pc = "extract"]
          /\ sys' = Charged(N(ok))
          /\ obs' = Passed(Did("clear"), "clear", ok)
    /\ UNCHANGED call

\* step 2: remove every entry of the mounted target; a removal that fails
\* leaves the target half cleared
UpdateClear ==
    /\ At("update", "clear")
    /\ \E ok \in Oks :
          /\ disk' = [disk EXCEPT !.root[TargetPart] =
                        IF ok \/ @.content = "empty" THEN EmptyRoot ELSE [@ EXCEPT !.content = "partial"]]
          /\ run' = IF ok THEN [run EXCEPT !.pc = "extract"]
                    ELSE [run EXCEPT !.pc = "cleanup", !.err = "failed to remove"]
          /\ sys' = Charged(N(ok))
          /\ obs' = Passed(Did("clear"), "clear", ok)
    /\ UNCHANGED call

\* the images an update is given: of the family of the installed one, shipping
\* bootctl exactly when the machine boots with systemd-boot (Update never
\* looks for bootctl)
UpdateImages == {i \in Images : i.bootctl = (disk.boot.family = "systemd-boot")}

\* an extraction after which Update goes straight to the bootloader
UpdateExtractThenBootloader ==
    /\ At("update", "extract")
    /\ \E image \in UpdateImages, ok \in Oks :
          /\ disk' = [disk EXCEPT !.root[TargetPart] =
                        [content |-> IF ok THEN "full" ELSE "partial",
                         image |-> image, unit |-> FALSE, config |-> NoConfig, fstab |-> 0]]
          /\ run' = IF ok THEN [run EXCEPT !.image = image, !.pc = "bootloader"]
                    ELSE [run EXCEPT !.image = image, !.pc = "cleanup",
                                     !.err = "failed to extract container"]
          /\ sys' = Charged(N(ok))
          /\ obs' = Passed(Did("extract"), "extract", ok)
    /\ UNCHANGED call

\* step 3: extract the image into the mounted target; an extraction that
\* fails leaves the target half written
UpdateExtract ==
    /\ At("update", "extract")
    /\ \E image \in UpdateImages, ok \in Oks :
          /\ disk' = [disk EXCEPT !.root[TargetPart] =
                        [content |-> IF ok THEN "full" ELSE "partial",
                         image |-> image, unit |-> FALSE, config |-> NoConfig, fstab |-> 0]]
          /\ run' = IF ok THEN [run EXCEPT !.image = image, !.pc = "merge"]
                    ELSE [run EXCEPT !.image = image, !.pc = "cleanup",
                                     !.err = "failed to extract container"]
          /\ sys' = Charged(N(ok))
          /\ obs' = Passed(Did("extract"), "extract", ok)
    /\ UNCHANGED call

\* MergeEtcFromActive(targetDir, activeRootPartition, false), containerEtc
\* being targetDir/etc; varOk, seedOk, unitOk: whether the mount of /var, the
\* seeding rsync and the writes of InstallEtcMountUnit go through
MergeEtcFromActive(d, r, containerEtc, varOk, seedOk, unitOk) ==
    LET device == DeriveDevice(ActiveRootOf(r))
        det == DetectExistingPartitionScheme(device, StatNodes(device, d.nodes))
        merged == MergeEtc(containerEtc, d.varEtc)
    IN  IF det.err # ""
        THEN [varEtc |-> d.varEtc, unit |-> FALSE, warned |-> {}, err |-> "failed to detect partition scheme"]
        ELSE IF ~(varOk /\ MountOk(d, r.device, det.scheme.VarPartition))
        THEN [varEtc |-> d.varEtc, unit |-> FALSE, warned |-> {}, err |-> "failed to mount /var partition"]
        ELSE IF ~d.varEtc.exists /\ ~seedOk
        THEN [varEtc |-> EtcDir(EmptyTree), unit |-> FALSE, warned |-> {}, err |-> "failed to copy /etc to /var/etc"]
        ELSE IF ~unitOk
        THEN [varEtc |-> EtcDir(merged.tree), unit |-> FALSE, warned |-> merged.warned,
              err |-> "failed to install etc.mount unit"]
        ELSE [varEtc |-> EtcDir(merged.tree), unit |-> TRUE, warned |-> merged.warned, err |-> ""]

\* step 4: merge /etc and install the etc.mount unit on the new root
UpdateMergeEtc ==
    /\ At("update", "merge")
    /\ \E outcome \in {"ok"} \cup (IF sys.faults < MaxFaults THEN {"var", "seed", "unit"} ELSE {}) :
          LET m == MergeEtcFromActive(disk, run, ImageEtc(disk.root[TargetPart].image),
                                      outcome # "var", outcome # "seed", outcome # "unit")
          IN  /\ outcome # "ok" => m.err # ""
              /\ disk' = [disk EXCEPT !.varEtc = m.varEtc, !.root[TargetPart].unit = m.unit]
              /\ obs' = [obs EXCEPT !.ops = IF m.varEtc # disk.varEtc \/ m.unit THEN @ \cup {"merge"} ELSE @,
                                    !.passed = IF m.err = "" THEN @ \cup {"merge"} ELSE @,
                                    !.warnings = IF m.warned # {} THEN @ \cup {"failed to copy"} ELSE @]
              /\ run' = IF m.err = "" THEN [run EXCEPT !.pc = "dirs"]
                        ELSE [run EXCEPT !.pc = "cleanup", !.err = "failed to merge /etc"]
              /\ sys' = Charged(N(outcome = "ok"))
    /\ UNCHANGED call

\* a step 5 after which the update goes on at the bootloader
UpdateSetupDirectoriesThenBootloader ==
    /\ At("update", "dirs")
    /\ \E ok \in Oks :
          /\ run' = IF ok THEN [run EXCEPT !.pc = "bootloader"]
                    ELSE [run EXCEPT !.pc = "cleanup", !.err = "failed to setup directories"]
          /\ sys' = Charged(N(ok))
          /\ obs' = Passed(Did("dirs"), "dirs", ok)
    /\ UNCHANGED <<disk, call>>

\* step 5: SetupSystemDirectories on the new root
UpdateSetupDirectories ==
    /\ At("update", "dirs")
    /\ \E ok \in Oks :
          /\ run' = IF ok THEN [run EXCEPT !.pc = "kernel"]
                    ELSE [run EXCEPT !.pc = "cleanup", !.err = "failed to setup directories"]
          /\ sys' = Charged(N(ok))
          /\ obs' = Passed(Did("dirs"), "dirs", ok)
    /\ UNCHANGED <<disk, call>>

\* step 6: copy the new root's kernel to the boot partition
InstallKernelAndInitramfs ==
    /\ At("update", "kernel")
    /\ \E ok \in Oks :
          IF ok /\ MountOk(disk, run.device, run.scheme.BootPartition)
                /\ MountOk(disk, run.device, run.scheme.EFIPartition)
          THEN /\ disk' = [disk EXCEPT !.boot.kernels = @ \cup {disk.root[TargetPart].image.kver}]
               /\ obs' = Passed(Did("kernel"), "kernel", TRUE)
               /\ run' = [run EXCEPT !.pc = "bootloader"]
               /\ sys' = sys
          ELSE /\ run' = [run EXCEPT !.pc = "cleanup", !.err = "failed to install kernel/initramfs"]
               /\ sys' = Charged(N(ok))
               /\ UNCHANGED <<disk, obs>>
    /\ UNCHANGED call

\* step 7: write the bootloader configuration, then report completion
UpdateBootloaderStep ==
    /\ At("update", "bootloader")
    /\ \E kargs \in KernelArgSets, mountOk \in Oks, tOk \in Oks, aOk \in Oks, wr \in Upto(2) :
          LET r == [run EXCEPT !.kargs = kargs]
              b == UpdateBootloader(disk, r, mountOk, tOk, aOk, wr)
              n == N(mountOk) + N(tOk) + N(aOk) + N(wr = 2)
          IN  /\ n <= MaxFaults - sys.faults
              /\ detectBootloaderType(disk.boot) = "grub2" => wr # 1
              /\ disk' = [disk EXCEPT !.boot = b.boot]
              /\ obs' = [obs EXCEPT !.ops = IF b.boot # disk.boot THEN @ \cup {"bootloader"} ELSE @,
                                    !.passed = IF b.err = "" THEN @ \cup {"bootloader"} ELSE @,
                                    !.complete = IF b.err = "" THEN "success" ELSE @,
                                    !.completes = IF b.err = "" THEN @ + 1 ELSE @]
              /\ run' = [r EXCEPT !.pc = "cleanup",
                                  !.err = IF b.err = "" THEN "" ELSE "failed to update bootloader"]
              /\ sys' = Charged(n)
    /\ UNCHANGED call

\* a teardown that removes /var/etc along with the mount point
UpdateCleanupRemovingVarEtc ==
    /\ At("update", "cleanup")
    /\ \E ok \in Oks :
          /\ sys' = IF ok THEN [sys EXCEPT !.mounts = Umount(@, "/tmp/phukit-update")] ELSE Charged(1)
          /\ obs' = [Logged(obs) EXCEPT !.tried = @ \cup {"/tmp/phukit-update"}, !.umountFailed = ~ok]
    /\ run' = [run EXCEPT !.pc = IF run.err = "" THEN "persist" ELSE "done"]
    /\ disk' = [disk EXCEPT !.varEtc = NoEtc]
    /\ UNCHANGED call

\* the deferred teardown when Update returns: it logs "Cleaning up...", then
\* runs the umount of the target, whose failure is ignored
UpdateCleanup ==
    /\ At("update", "cleanup")
    /\ \E ok \in Oks :
          /\ sys' = IF ok THEN [sys EXCEPT !.mounts = Umount(@, "/tmp/phukit-update")] ELSE Charged(1)
          /\ obs' = [Logged(obs) EXCEPT !.tried = @ \cup {"/tmp/phukit-update"}, !.umountFailed = ~ok]
    /\ run' = [run EXCEPT !.pc = IF run.err = "" THEN "persist" ELSE "done"]
    /\ UNCHANGED <<disk, call>>

\* /etc/phukit/config.json of the running system, as the update finds it
HostConfigRoot ==
    IF sys.booted \in {3, 4} /\ disk.root[sys.booted].content = "full"
       /\ ~disk.root[sys.booted].unit /\ disk.root[sys.booted].config # NoConfig
    THEN sys.booted ELSE 0

\* a config update that writes a new file holding the image reference alone
UpdatePersistFreshConfig ==
    /\ At("update", "persist")
    /\ \E ok \in Oks :
          /\ IF ok /\ HostConfigRoot # 0
             THEN /\ disk' = [disk EXCEPT !.root[HostConfigRoot].config =
                                            [NoConfig EXCEPT !.ImageRef = run.image]]
                  /\ obs' = Did("config")
             ELSE /\ obs' = [Logged(obs) EXCEPT !.warnings = @ \cup {"Failed to update system config"}]
                  /\ disk' = disk
          /\ sys' = Charged(N(ok))
    /\ run' = [run EXCEPT !.pc = "done"]
    /\ UNCHANGED call

\* UpdateSystemConfigImageRef on the running system; a failure is a warning
UpdatePersistConfig ==
    /\ At("update", "persist")
    /\ \E ok \in Oks :
          /\ IF ok /\ HostConfigRoot # 0
             THEN /\ disk' = [disk EXCEPT !.root[HostConfigRoot].config.ImageRef = run.image]
                  /\ obs' = Did("config")
             ELSE /\ obs' = [Logged(obs) EXCEPT !.warnings = @ \cup {"Failed to update system config"}]
                  /\ disk' = disk
          /\ sys' = Charged(N(ok))
    /\ run' = [run EXCEPT !.pc = "done"]
    /\ UNCHANGED call

\* the command has returned; the operator has the machine again
EndRun ==
    /\ run.kind # "idle" /\ run.pc = "done"
    /\ run' = IdleRun
    /\ obs' = NoObs
    /\ UNCHANGED <<disk, sys, call>>

---------------------------------------------------------------------------
(* InstallComplete, one action per step *)

\* the operator starts "phukit install" on the machine's disk
StartInstall ==
    /\ run.kind = "idle"
    /\ sys.installs < MaxInstalls /\ sys.installs + sys.updates < MaxRuns
    /\ \E dryRun \in BOOLEAN :
          run' = [IdleRun EXCEPT !.kind = "install", !.pc = "tools", !.device = sys.device,
                                 !.dryRun = dryRun]
    /\ obs' = [NoObs EXCEPT !.pre = disk, !.mounted = sys.mounts, !.booted = sys.booted]
    /\ sys' = [sys EXCEPT !.installs = @ + 1]
    /\ UNCHANGED <<disk, call>>

CheckRequiredTools ==
    /\ At("install", "tools")
    /\ \E ok \in Oks :
          /\ run' = IF ok THEN [run EXCEPT !.pc = "validate"] ELSE Fail(run, "missing required tools")
          /\ sys' = Charged(N(ok))
    /\ UNCHANGED <<disk, obs, call>>

\* what ValidateDisk accepts: the device is at least minSize large and none
\* of its partitions is mounted
DiskIsValid(bigEnough) == bigEnough /\ sys.booted = 0 /\ sys.mounts = <<>>

\* a validation whose error is recorded while the installation goes on
ValidateDiskThenGoOn ==
    /\ At("install", "validate")
    /\ \E bigEnough \in Oks :
          /\ run' = IF DiskIsValid(bigEnough)
                    THEN [run EXCEPT !.pc = "pull"]
                    ELSE [run EXCEPT !.pc = "pull", !.err = "disk validation failed"]
          /\ sys' = Charged(N(bigEnough))
    /\ UNCHANGED <<disk, obs, call>>

\* InstallComplete validates the disk and returns the error of ValidateDisk
ValidateDisk ==
    /\ At("install", "validate")
    /\ \E bigEnough \in Oks :
          /\ run' = IF DiskIsValid(bigEnough)
                    THEN [run EXCEPT !.pc = "pull"] ELSE Fail(run, "disk validation failed")
          /\ sys' = Charged(N(bigEnough))
    /\ UNCHANGED <<disk, obs, call>>

\* BootcInstaller.PullImage, skipped with --skip-pull
InstallPullImage ==
    /\ At("install", "pull")
    /\ \E skipPull \in BOOLEAN, ok \in Oks :
          /\ skipPull \/ run.dryRun => ok
          /\ run' = IF ok THEN [run EXCEPT !.pc = "confirm"] ELSE Fail(run, "failed to access image")
          /\ sys' = Charged(N(ok))
    /\ UNCHANGED <<disk, obs, call>>

\* the prompt before wiping, which JSON output and dry-run skip
InstallConfirm ==
    /\ At("install", "confirm")
    /\ \E json \in BOOLEAN :
          IF ~run.dryRun /\ ~json
          THEN \E response \in Responses :
                 /\ obs' = [obs EXCEPT !.asked = TRUE, !.resp = response]
                 /\ run' = IF response # "yes"
                           THEN Fail([run EXCEPT !.json = json], "installation cancelled by user")
                           ELSE [run EXCEPT !.json = json, !.pc = "wipe"]
          ELSE /\ run' = [run EXCEPT !.json = json, !.pc = "wipe"]
               /\ obs' = obs
    /\ UNCHANGED <<disk, sys, call>>

\* WipeDisk(device, dryRun): drops the partition table and every signature
WipeDisk ==
    /\ At("install", "wipe")
    /\ IF run.dryRun
       THEN /\ run' = [run EXCEPT !.pc = "create"]
            /\ UNCHANGED <<disk, obs, sys>>
       ELSE \E ok \in Oks :
              /\ disk' = IF ok THEN BlankDisk ELSE disk
              /\ obs' = IF ok THEN Did("wipe") ELSE obs
              /\ run' = IF ok THEN [run EXCEPT !.pc = "create"] ELSE Fail(run, "failed to wipe disk")
              /\ sys' = Charged(N(ok))
    /\ UNCHANGED call

\* Install returned an error: InstallComplete reports it
InstallFailed(r, e) == [r EXCEPT !.pc = "done", !.err = e]

\* how a non-dry-run CreatePartitions may go; with "probe" the kernel has not
\* read the new table and the device shows no partition nodes
CreateOutcomes == IF sys.faults < MaxFaults THEN {"ok", "sgdisk", "probe"} ELSE {"ok"}

\* Install up to CreatePartitions; with dry-run Install and Verify only log
CreatePartitions ==
    /\ At("install", "create")
    /\ IF run.dryRun
       THEN /\ run' = [run EXCEPT !.pc = "done"]
            /\ UNCHANGED <<disk, obs, sys>>
       ELSE \E outcome \in CreateOutcomes :
              LET c == CreatePartitionsResult(run.device, FALSE, outcome)
              IN  /\ disk' = IF outcome = "ok"
                             THEN [BlankDisk EXCEPT !.nodes = {KernelNode(run.device, n) : n \in PartNums}]
                             ELSE BlankDisk
                  /\ obs' = [Did("partition") EXCEPT !.complete = IF c.err = "" THEN @ ELSE "failure",
                                                     !.completes = IF c.err # "" THEN @ + 1 ELSE @]
                  /\ run' = IF c.err = "" THEN [run EXCEPT !.pc = "format", !.scheme = c.scheme]
                            ELSE InstallFailed(run, "failed to create partitions")
                  /\ sys' = Charged(N(outcome = "ok"))
    /\ UNCHANGED call

\* the partitions in the order FormatPartitions formats them
FormatOrder == <<1, 2, 3, 4, 5>>

\* done: how many of the mkfs calls succeed before one fails
FormatPartitions ==
    /\ At("install", "format")
    /\ \E done \in Upto(5) :
          LET made == IF \A n \in PartNums : PartPath(run.device, n) \in disk.nodes THEN done ELSE 0
          IN  /\ disk' = [disk EXCEPT !.fs = [n \in PartNums |-> \E i \in 1..made : FormatOrder[i] = n]]
              /\ run' = IF made = 5 THEN [run EXCEPT !.pc = "mount"]
                        ELSE InstallFailed(run, "failed to format partitions")
              /\ obs' = [Did("format") EXCEPT !.complete = IF made = 5 THEN @ ELSE "failure",
                                              !.completes = IF made # 5 THEN @ + 1 ELSE @]
              /\ sys' = Charged(N(done = 5))
    /\ UNCHANGED call

\* the mounts of MountPartitions, in its order
InstallMounts ==
    << Mount(3, "/tmp/phukit-install"), Mount(2, "/tmp/phukit-install/boot"),
       Mount(1, "/tmp/phukit-install/boot/efi"), Mount(5, "/tmp/phukit-install/var") >>

\* done: how many of the mounts succeed before one fails; the deferred
\* unmount is registered only after MountPartitions has returned without error
MountPartitions ==
    /\ At("install", "mount")
    /\ \E done \in Upto(4) :
          /\ sys' = [Charged(N(done = 4)) EXCEPT !.mounts = @ \o SubSeq(InstallMounts, 1, done)]
          /\ run' = IF done = 4 THEN [run EXCEPT !.pc = "extract"]
                    ELSE InstallFailed(run, "failed to mount partitions")
          /\ obs' = [obs EXCEPT !.ops = IF done > 0 THEN @ \cup {"mount"} ELSE @,
                                !.made = @ \cup {InstallMounts[i].at : i \in 1..done},
                                !.complete = IF done = 4 THEN @ ELSE "failure",
                                !.completes = IF done # 4 THEN @ + 1 ELSE @]
    /\ UNCHANGED <<disk, call>>

\* whether an image ships a directory /boot/loader (with entries of its
\* own); drawn for the images that bring GRUB2, the others get the directory
\* from the installation anyway
ShipsLoaderDir(image) == IF image.bootctl THEN {FALSE} ELSE BOOLEAN

\* step 4 of Install: extract the image over the mounted partitions, the
\* image's /boot onto the boot partition; an extraction that fails leaves
\* the root half written
InstallExtract ==
    /\ At("install", "extract")
    /\ \E image \in Images, ok \in Oks : \E loaderDir \in ShipsLoaderDir(image) :
          /\ disk' = [disk EXCEPT !.root[3] =
                        [content |-> IF ok THEN "full" ELSE "partial",
                         image |-> image, unit |-> FALSE, config |-> NoConfig, fstab |-> 0],
                                  !.boot.loader = @ \/ loaderDir]
          /\ run' = IF ok THEN [run EXCEPT !.image = image, !.pc = "configure"]
                    ELSE [run EXCEPT !.image = image, !.pc = "cleanup",
                                     !.err = "failed to extract container"]
          /\ sys' = Charged(N(ok))
    /\ obs' = Did("extract")
    /\ UNCHANGED call

\* a detection that always gives the default
DetectBootloaderDefault(image) == "grub2"

\* usr/bin/bootctl in the extracted root decides the bootloader
DetectBootloader(image) == IF image.bootctl THEN "systemd-boot" ELSE "grub2"

\* the root whose entry the fstab of CreateFstab leaves uncommented: the
\* first, whatever the target
CreateFstab == 3

\* step 5 of Install: CreateFstab, SetupSystemDirectories, SavePristineEtc,
\* WriteSystemConfigToTarget; done: how many of the four succeed
InstallConfigure ==
    /\ At("install", "configure")
    /\ \E kargs \in KernelArgSets, done \in Upto(4) :
          /\ disk' = [disk EXCEPT
                        !.pristine = (done >= 3),
                        !.root[3].fstab = IF done >= 1 THEN CreateFstab ELSE @,
                        !.root[3].config =
                            IF done = 4
                            THEN [ImageRef |-> run.image, Device |-> run.device,
                                  KernelArgs |-> kargs,
                                  BootloaderType |-> DetectBootloader(disk.root[3].image)]
                            ELSE @]
          /\ obs' = IF done = 4 THEN Did("config") ELSE obs
          /\ run' = IF done = 4 THEN [run EXCEPT !.kargs = kargs, !.pc = "bootloader"]
                    ELSE [run EXCEPT !.kargs = kargs, !.pc = "cleanup",
                                     !.err = "failed to configure system"]
          /\ sys' = Charged(N(done = 4))
    /\ UNCHANGED call

\* the command line of the entry an installation writes
InstallCmdline(d, r, mode) ==
    <<Tok("root=UUID=", BlkidUuid(d, r.device, r.scheme.Root1Partition)), Tok(mode, "")>>
    \o (IF mode = "ro" THEN <<Tok("console=tty0", "")>> ELSE <<>>)
    \o <<Tok("systemd.mount-extra=UUID=", BlkidUuid(d, r.device, r.scheme.VarPartition))>>
    \o r.kargs

\* BootloaderInstaller.Install: copyKernelFromModules, then installGRUB2 or
\* installSystemdBoot; done: 0 the kernel copy fails, 1 the bootloader's
\* files cannot be put in place, 2 its configuration cannot be written, 3 all done
BootloaderInstall(d, r, done) ==
    LET kernels == d.boot.kernels \cup {d.root[3].image.kver}
        withKernel == [d.boot EXCEPT !.kernels = kernels]
        placed == IF DetectBootloader(d.root[3].image) = "grub2"
                  THEN [withKernel EXCEPT !.grub = TRUE, !.efi = d.root[3].image.kver,
                                          !.family = "grub2"]
                  ELSE [withKernel EXCEPT !.efi = d.root[3].image.kver,
                                          !.family = "systemd-boot"]
        written == IF DetectBootloader(d.root[3].image) = "grub2"
                   THEN [placed EXCEPT !.grubCfg =
                            <<Entry("os", FirstKernel(kernels), InstallCmdline(d, r, "ro"))>>]
                   ELSE [placed EXCEPT !.loader = TRUE,
                            !.bootc = Entry("os", FirstKernel(kernels), InstallCmdline(d, r, "rw"))]
    IN  CASE done = 0 -> [boot |-> d.boot, err |-> "failed to copy kernel from modules"]
          [] done = 1 -> [boot |-> withKernel, err |-> "failed to install bootloader"]
          [] done = 2 -> [boot |-> placed, err |-> "failed to generate bootloader config"]
          [] OTHER -> [boot |-> written, err |-> ""]

\* step 6 of Install, then the completion event
InstallBootloader ==
    /\ At("install", "bootloader")
    /\ \E done \in Upto(3) :
          LET b == BootloaderInstall(disk, run, done)
          IN  /\ disk' = [disk EXCEPT !.boot = b.boot]
              /\ obs' = [obs EXCEPT !.ops = IF b.boot # disk.boot THEN @ \cup {"bootloader"} ELSE @,
                                    !.complete = IF b.err = "" THEN "success" ELSE @,
                                    !.completes = IF b.err = "" THEN @ + 1 ELSE @]
              /\ run' = [run EXCEPT !.pc = "cleanup",
                                    !.err = IF b.err = "" THEN "" ELSE "failed to install bootloader"]
              /\ sys' = Charged(N(done = 3))
    /\ UNCHANGED call

\* the directories UnmountPartitions runs umount on, in its order
UnmountOrder ==
    << "/tmp/phukit-install/boot/efi", "/tmp/phukit-install/boot",
       "/tmp/phukit-install/var", "/tmp/phukit-install" >>

\* the mount points that lie below a mount point
Below(at) ==
    CASE at = "/tmp/phukit-install" ->
            {"/tmp/phukit-install/boot", "/tmp/phukit-install/boot/efi", "/tmp/phukit-install/var"}
      [] at = "/tmp/phukit-install/boot" -> {"/tmp/phukit-install/boot/efi"}
      [] OTHER -> {}

\* umount <at>: fails when it is the call that is made to fail, when nothing
\* is mounted there, or when a mount below it is still there (target is busy)
UmountOk(mounts, at, failing) ==
    /\ at # failing
    /\ \E j \in DOMAIN mounts : mounts[j].at = at
    /\ ~\E j \in DOMAIN mounts : mounts[j].at \in Below(at)

RECURSIVE UnmountFrom(_, _, _)
\* the umount calls of UnmountPartitions from the i-th on; st is [mounts,
\* attempts, warned]: the mount table, the calls made, the warnings printed
UnmountFrom(st, failing, i) ==
    IF i > Len(UnmountOrder) THEN st
    ELSE LET at == UnmountOrder[i]
             ok == UmountOk(st.mounts, at, failing)
         IN  UnmountFrom([mounts |-> IF ok THEN Umount(st.mounts, at) ELSE st.mounts,
                          attempts |-> Append(st.attempts, at),
                          warned |-> IF ok THEN st.warned ELSE st.warned \cup {at}],
                         failing, i + 1)

\* UnmountPartitions(mountPoint, false); failing: the umount made to fail, if any
UnmountPartitions(mounts, failing) ==
    UnmountFrom([mounts |-> mounts, attempts |-> <<>>, warned |-> {}], failing, 1)

\* the umount of UnmountPartitions that fails: none, or one while faults are left
UmountFailures ==
    IF sys.faults < MaxFaults THEN {""} \cup {UnmountOrder[i] : i \in DOMAIN UnmountOrder} ELSE {""}

\* the deferred UnmountPartitions when Install returns; a umount that fails
\* is a warning and leaves its mount
InstallCleanup ==
    /\ At("install", "cleanup")
    /\ \E failing \in UmountFailures :
          LET u == UnmountPartitions(sys.mounts, failing)
          IN  /\ sys' = [Charged(N(failing = "")) EXCEPT !.mounts = u.mounts]
              /\ obs' = [obs EXCEPT !.warnings = IF u.warned = {} THEN @ ELSE @ \cup {"failed to unmount"},
                                    !.tried = @ \cup {u.attempts[i] : i \in DOMAIN u.attempts},
                                    !.umountFailed = (u.warned # {}),
                                    !.attempts = u.attempts,
                                    !.complete = IF run.err # "" THEN "failure" ELSE @,
                                    !.completes = IF run.err # "" THEN @ + 1 ELSE @]
    /\ run' = [run EXCEPT !.pc = IF run.err = "" THEN "verify" ELSE "done"]
    /\ UNCHANGED <<disk, call>>

\* Verify: logs "Verifying installation...", then the device shows
\* partitions; a failure is a warning
InstallVerify ==
    /\ At("install", "verify")
    /\ \E ok \in Oks :
          /\ obs' = IF ok /\ disk.nodes # {} THEN Logged(obs)
                    ELSE [Logged(obs) EXCEPT !.warnings = @ \cup {"verification failed"}]
          /\ sys' = Charged(N(ok))
    /\ run' = [run EXCEPT !.pc = "done"]
    /\ UNCHANGED <<disk, call>>

---------------------------------------------------------------------------
(* Booting *)

\* the entries the installed bootloader offers
BootEntries(d) ==
    IF d.boot.family = "systemd-boot" THEN {d.boot.bootc, d.boot.previous} \ {NoEntry}
    ELSE IF d.boot.family = "grub2" THEN {d.boot.grubCfg[i] : i \in DOMAIN d.boot.grubCfg}
    ELSE {}

\* the root partition an entry's root=UUID= names, 0 if none
EntryRoot(d, e) ==
    LET hits == {n \in {3, 4} : d.fs[n] /\ \E i \in DOMAIN e.options :
                    e.options[i].key = "root=UUID=" /\ e.options[i].val = UuidOf(n)}
    IN  IF hits = {} THEN 0 ELSE CHOOSE n \in hits : TRUE

\* the machine is restarted: into a live environment, or from an entry of the
\* disk whose kernel and root are there
Reboot ==
    /\ run.kind = "idle"
    /\ \/ sys' = [sys EXCEPT !.booted = 0, !.cmdline = LiveCmdline, !.mounts = <<>>]
       \/ \E e \in BootEntries(disk) :
            /\ disk.boot.efi # 0 /\ e.linux \in disk.boot.kernels
            /\ EntryRoot(disk, e) # 0
            /\ disk.root[EntryRoot(disk, e)].content = "full"
            /\ sys' = [sys EXCEPT !.booted = EntryRoot(disk, e), !.cmdline = e.options, !.mounts = <<>>]
    /\ UNCHANGED <<disk, run, obs, call>>

---------------------------------------------------------------------------
(* The specifications *)

Init ==
    /\ disk = BlankDisk
    /\ \E device \in Devices :
          sys = [device |-> device, booted |-> 0, cmdline |-> LiveCmdline,
                 mounts |-> <<>>, installs |-> 0, updates |-> 0, faults |-> 0]
    /\ run = IdleRun
    /\ obs = NoObs
    /\ call = IdleEtc

Next ==
    \/ StartInstall \/ CheckRequiredTools \/ ValidateDisk \/ InstallPullImage
    \/ InstallConfirm \/ WipeDisk \/ CreatePartitions \/ FormatPartitions
    \/ MountPartitions \/ InstallExtract \/ InstallConfigure \/ InstallBootloader
    \/ InstallCleanup \/ InstallVerify
    \/ StartUpdate \/ PrepareUpdate \/ UpdatePullImage \/ UpdateConfirm
    \/ UpdateMount \/ UpdateClear \/ UpdateExtract \/ UpdateMergeEtc
    \/ UpdateSetupDirectories \/ InstallKernelAndInitramfs \/ UpdateBootloaderStep
    \/ UpdateCleanup \/ UpdatePersistConfig
    \/ EndRun \/ Reboot

Spec == Init /\ [][Next]_vars

InitMerge ==
    /\ disk = BlankDisk
    /\ sys = [device |-> DevDir \o <<"s", "d", "a">>, booted |-> 0,
              cmdline |-> LiveCmdline, mounts |-> <<>>,
              installs |-> 0, updates |-> 0, faults |-> 0]
    /\ run = IdleRun
    /\ obs = NoObs
    /\ \E img \in Trees, store \in {NoEtc} \cup {EtcDir(t) : t \in StoreTrees} :
          call = EtcCall(img, store)

NextMerge == EtcMergeCall \/ EtcMergeAgain

SpecMerge == InitMerge /\ [][NextMerge]_vars

---------------------------------------------------------------------------
(* Properties of the orchestrators, stated on the states of Spec           *)

\* the steps that destroy what a partition or the disk holds
Destructive == {"wipe", "partition", "format", "clear", "extract"}

\* the UUID an entry's command line gives as root, "none" without the field
RootUuidOf(e) ==
    LET hits == {i \in DOMAIN e.options : e.options[i].key = "root=UUID="}
    IN  IF hits = {} THEN "none" ELSE e.options[CHOOSE i \in hits : \A j \in hits : i <= j].val

\* grub.cfg and the two loader entry files
BootConfig(d) == <<d.boot.grubCfg, d.boot.bootc, d.boot.previous>>

\* the steps of Update that come before the bootloader is written
BeforeBootloader == {"mount", "clear", "extract", "merge", "dirs", "kernel"}

\* C1: while an update runs on a machine booted from one of the two roots,
\* the partition it has mounted, cleared or extracted into is never the root
\* the machine is booted from, however the active root was detected.
C1_BootedRootNeverTarget ==
    (run.kind = "update" /\ sys.booted \in {3, 4}
       /\ obs.ops \cap {"mount", "clear", "extract"} # {})
        => TargetPart # sys.booted

\* C3: an install or update has started a destructive step only if the
\* operator answered exactly "yes" or the force flag was set; any other
\* answer ends the invocation with the cancellation error and the disk as it
\* was.  JSON output is one of the formats drawn.
C3_NoDestructionWithoutConsent ==
    /\ (run.kind # "idle" /\ obs.ops \cap Destructive # {})
          => (obs.resp = "yes" \/ run.force)
    /\ (run.kind # "idle" /\ obs.asked /\ obs.resp # "yes")
          => /\ run.err \in {"installation cancelled by user", "update cancelled by user"}
             /\ disk = obs.pre

\* C4: an install or update with dry-run set, at every point up to its
\* return, has done no step that changes the machine: the disk is what it was
\* when the invocation started, and so are the mounts.
C4_DryRunChangesNothing ==
    (run.kind # "idle" /\ run.dryRun)
        => disk = obs.pre /\ sys.mounts = obs.mounted /\ obs.ops = {}

\* a dry-run update that has run to its end on an installed machine
C4_Witness ==
    /\ At("update", "done") /\ run.dryRun /\ run.err = ""
    /\ obs.booted \in {3, 4} /\ disk.boot.kernels # {}

\* C5: once an update of a GRUB2 machine booted from one of the roots has
\* reported success, grub.cfg holds exactly two entries: the first with the
\* UUID of the update target as root, the second with the UUID of the root
\* the machine was booted from when the update started.
C5_GrubEntries ==
    (run.kind = "update" /\ obs.complete = "success" /\ obs.booted \in {3, 4}
       /\ detectBootloaderType(disk.boot) = "grub2")
        => /\ Len(disk.boot.grubCfg) = 2
           /\ RootUuidOf(disk.boot.grubCfg[1]) = UuidOf(TargetPart)
           /\ RootUuidOf(disk.boot.grubCfg[2]) = UuidOf(obs.booted)

\* C6: once an update of a systemd-boot machine booted from one of the roots
\* has reported success, bootc.conf gives the UUID of the update target as
\* root and bootc-previous.conf the UUID of the root the machine was booted
\* from when the update started; this holds for each update of a sequence.
C6_LoaderEntries ==
    (run.kind = "update" /\ obs.complete = "success" /\ obs.booted \in {3, 4}
       /\ detectBootloaderType(disk.boot) = "systemd-boot")
        => /\ RootUuidOf(disk.boot.bootc) = UuidOf(TargetPart)
           /\ disk.boot.previous # NoEntry
           /\ RootUuidOf(disk.boot.previous) = UuidOf(obs.booted)

\* C7: while an update has not passed every one of its six steps before the
\* bootloader, through to its return, grub.cfg and the loader entry files
\* are what they were when the update started.
C7_BootloaderWrittenLast ==
    (run.kind = "update" /\ ~(BeforeBootloader \subseteq obs.passed))
        => BootConfig(disk) = BootConfig(obs.pre)

\* an update that extracted the image, then failed at the /etc merge, and
\* has returned, on a machine whose bootloader was configured
C7_Witness ==
    /\ At("update", "done") /\ run.err = "failed to merge /etc"
    /\ "extract" \in obs.passed
    /\ BootConfig(disk) # BootConfig(BlankDisk)

\* C12: once an installation has reported success, /var/etc on the var
\* partition exists and holds a verbatim copy of the /etc of the image just
\* extracted, and the new root carries the etc.mount unit, enabled.
C12_InstallSeedsVarEtc ==
    (run.kind = "install" /\ obs.complete = "success")
        => /\ disk.varEtc = EtcDir(ImageEtc(disk.root[3].image))
           /\ disk.root[3].unit

\* C13: when an install or update has returned, on any path, umount has been
\* run on every mount point the invocation had mounted, a mount sequence
\* that failed half way included.
C13_EveryMountUnmounted ==
    (run.kind # "idle" /\ run.pc = "done") => obs.made \subseteq obs.tried

\* the message Install and Update wrap the error of each of their steps in,
\* by the position the step runs at
WrappedError(kind, pc) ==
    CASE kind = "install" /\ pc = "create"     -> "failed to create partitions"
      [] kind = "install" /\ pc = "format"     -> "failed to format partitions"
      [] kind = "install" /\ pc = "mount"      -> "failed to mount partitions"
      [] kind = "install" /\ pc = "extract"    -> "failed to extract container"
      [] kind = "install" /\ pc = "configure"  -> "failed to configure system"
      [] kind = "install" /\ pc = "bootloader" -> "failed to install bootloader"
      [] kind = "update"  /\ pc = "update"     -> "failed to mount target partition"
      [] kind = "update"  /\ pc = "clear"      -> "failed to remove"
      [] kind = "update"  /\ pc = "extract"    -> "failed to extract container"
      [] kind = "update"  /\ pc = "merge"      -> "failed to merge /etc"
      [] kind = "update"  /\ pc = "dirs"       -> "failed to setup directories"
      [] kind = "update"  /\ pc = "kernel"     -> "failed to install kernel/initramfs"
      [] kind = "update"  /\ pc = "bootloader" -> "failed to update bootloader"
      [] OTHER -> ""

C15_UnmountFailureOnlyWarns ==
    (run.kind # "idle" /\ obs.umountFailed)
        => /\ "failed to unmount" \in obs.warnings
           /\ run.err = "" <=> obs.complete = "success"

\* C16: an installation whose disk fails validation (too small, or in use)
\* has returned the validation error with no step run that writes to the
\* disk: the disk and its partition table are what they were.
C16_ValidationBeforeWrites ==
    (run.kind = "install" /\ run.err = "disk validation failed")
        => /\ run.pc = "done"
           /\ disk = obs.pre /\ disk.nodes = obs.pre.nodes
           /\ obs.ops = {} /\ ~obs.asked

\* a non-dry-run installation refused for its disk, the device without partitions
C16_Witness ==
    /\ At("install", "done") /\ run.err = "disk validation failed"
    /\ ~run.dryRun /\ disk.nodes = {}

\* the mounts in the order and at the places the UAPI layout asks for: root,
\* XBOOTLDR at /boot, the ESP at /efi beside it, var at /var
UapiMounts ==
    << Mount(3, "/tmp/phukit-install"), Mount(2, "/tmp/phukit-install/boot"),
       Mount(1, "/tmp/phukit-install/efi"), Mount(5, "/tmp/phukit-install/var") >>

\* C20: when MountPartitions has returned without error, the mounts it made
\* are, in this order, the root at the mount point, the boot partition at
\* <mountpoint>/boot, the ESP at <mountpoint>/efi (not below /boot) and var
\* at <mountpoint>/var.
C20_MountOrder ==
    At("install", "extract") => sys.mounts = obs.mounted \o UapiMounts

\* the mount points of MountPartitions, the last mounted first
ReverseOfMounts == [i \in 1..Len(InstallMounts) |-> InstallMounts[Len(InstallMounts) + 1 - i].at]

\* C21: when UnmountPartitions has run, its umount calls are, in this order,
\* the mount points of MountPartitions from the last mounted to the first,
\* every one of them, also when one of the calls failed.
C21_UnmountReverseOrder ==
    (run.kind = "install" /\ obs.attempts # <<>>) => obs.attempts = ReverseOfMounts

\* a command line of the form root=UUID=<a root's UUID>, ro or rw, the
\* mount-extra directive of the var partition, then the given arguments; a
\* console argument may stand before the directive
CmdlineForm(options, kargs) ==
    /\ Len(options) >= 3 + Len(kargs)
    /\ options[1].key = "root=UUID=" /\ options[1].val \in {UuidOf(3), UuidOf(4)}
    /\ options[2] \in {Tok("ro", ""), Tok("rw", "")}
    /\ \E i \in 3..Len(options) :
          /\ options[i] = Tok("systemd.mount-extra=UUID=", UuidOf(5))
          /\ \A j \in 3..(i - 1) : options[j] = Tok("console=tty0", "")
          /\ SubSeq(options, i + 1, Len(options)) = kargs

\* C23: once an install or update has reported success, every boot entry on
\* the disk, current or previous, GRUB2 or systemd-boot, has a command line
\* of the form root=UUID=<its root>, ro or rw, the mount-extra directive
\* binding the var partition's UUID to /var, then the kernel arguments the
\* caller gave, in their order.
C23_EntryCmdlineForm ==
    (run.kind # "idle" /\ obs.complete = "success")
        => \A e \in BootEntries(disk) : CmdlineForm(e.options, run.kargs)

InstalledFamily(d) ==
    CASE d.boot.family = "systemd-boot" /\ d.boot.loader /\ ~d.boot.grub -> "systemd-boot"
      [] d.boot.family = "grub2" /\ d.boot.grub -> "grub2"
      [] OTHER -> "none"

C28_ExtractOntoEmptyRoot ==
    /\ At("install", "extract") => disk.root[3] = EmptyRoot
    /\ At("update", "extract") => disk.root[TargetPart] = EmptyRoot
    /\ (run.kind = "update" /\ "clear" \in obs.ops /\ "clear" \notin obs.passed)
          => "extract" \notin obs.ops

\* an installation about to extract onto a disk whose first root held a full
\* root filesystem when the installation started
C28_Witness ==
    /\ At("install", "extract")
    /\ obs.pre.root[3].content = "full" /\ disk.root[3] = EmptyRoot

\* an update about to extract into a target that held a full root filesystem
C28_WitnessUpdate ==
    /\ At("update", "extract")
    /\ obs.pre.root[TargetPart].content = "full" /\ disk.root[TargetPart] = EmptyRoot

\* C29: once an install or update has reported success, the /etc/fstab of
\* the root the system will boot from (the first root after an install, the
\* target after an update) has that root's entry uncommented and the other
\* root's entry commented out.
C29_FstabNamesBootedRoot ==
    (run.kind # "idle" /\ obs.complete = "success")
        => LET n == IF run.kind = "install" THEN 3 ELSE TargetPart
           IN  disk.root[n].fstab = n

\* the stages of InstallComplete in the order the specification gives them
InstallStages ==
    << "tools", "validate", "pull", "confirm", "wipe", "create", "format", "mount",
       "extract", "configure", "bootloader", "verify", "cleanup" >>

StageRank(pc) == CHOOSE i \in DOMAIN InstallStages : InstallStages[i] = pc

\* C33: an installation moves through its stages in the order tool check,
\* disk validation, image pull, confirmation, wipe, create, format, mount,
\* extract, configure, bootloader, verify, unmount, each at most once; a
\* stage that fails is the last to run but for the unmount; and when the
\* installation has returned, umount has been run on everything it mounted.
C33_InstallStageOrder ==
    [][ /\ (run.kind = "install" /\ run'.kind = "install" /\ run'.pc # "done")
            => StageRank(run'.pc) > StageRank(run.pc)
        /\ (run.kind = "install" /\ run.err = "" /\ run'.kind = "install" /\ run'.err # "")
            => run'.pc \in {"cleanup", "done"}
        /\ (run'.kind = "install" /\ run'.pc = "done")
            => obs'.made \subseteq obs'.tried ]_vars

\* the stages of PerformUpdate in the order the specification gives them;
\* prepare stands for the tool check, the scheme detection and the
\* determination of the active root, update for the mount of the target
UpdateStages ==
    << "prepare", "pull", "confirm", "update", "clear", "extract", "merge", "dirs",
       "kernel", "bootloader", "persist", "cleanup" >>

\* the same stages with the unmount before the SystemConfig is persisted
UpdateStagesUnmountFirst ==
    << "prepare", "pull", "confirm", "update", "clear", "extract", "merge", "dirs",
       "kernel", "bootloader", "cleanup", "persist" >>

RankIn(stages, pc) == CHOOSE i \in DOMAIN stages : stages[i] = pc

\* an update goes from stage to stage in the order of stages: a later stage
\* after every stage, and the next one after a stage that returned no error
InOrderOf(stages) ==
    (run.kind = "update" /\ run'.kind = "update" /\ run'.pc # "done")
      => /\ RankIn(stages, run'.pc) > RankIn(stages, run.pc)
         /\ run'.err = "" => RankIn(stages, run'.pc) = RankIn(stages, run.pc) + 1

\* C34 as stated: PerformUpdate runs its stages one after another in the
\* order tool check, scheme detection, active root, pull, confirmation,
\* mount, clear, extract, merge, directories, kernel, bootloader, persist
\* SystemConfig, unmount.
C34_UpdateStageOrder == [][InOrderOf(UpdateStages)]_vars

\* C34 amended: PerformUpdate runs its stages one after another in the same
\* order but with the unmount of the target before the SystemConfig is
\* persisted.
C34_UpdateStageOrderUnmountFirst == [][InOrderOf(UpdateStagesUnmountFirst)]_vars

\* an update that ran umount on its mount point and then wrote the config
C34_Witness ==
    /\ At("update", "done") /\ run.err = ""
    /\ "/tmp/phukit-update" \in obs.tried /\ "config" \in obs.ops
    /\ {"clear", "dirs"} \subseteq obs.passed

\* C35: a step of an update other than the /etc merge leaves /var/etc on the
\* var partition as it was, the clearing and the extraction of the target
\* included; and the merge step that wrote the etc.mount unit into the new
\* root leaves in /var/etc the result of the merge and nothing else.
C35_OnlyMergeTouchesVarEtc ==
    [][ /\ (run.kind = "update" /\ run.pc # "merge") => disk'.varEtc = disk.varEtc
        /\ (At("update", "merge") /\ disk'.root[TargetPart].unit)
            => disk'.varEtc =
                 EtcDir(MergeEtc(ImageEtc(disk.root[TargetPart].image), disk.varEtc).tree) ]_vars

\* an update that found a /var/etc, cleared and extracted its target, wrote
\* the unit and returned with the /var/etc holding the new image's os-release
C35_Witness ==
    /\ At("update", "done") /\ run.err = ""
    /\ obs.pre.varEtc.exists /\ disk.root[TargetPart].unit
    /\ {"clear", "extract", "merge"} \subseteq obs.passed
    /\ disk.varEtc # obs.pre.varEtc

\* C37: from the return of a successful PrepareUpdate to the end of the
\* update, whatever the detection found, the target is one of the two roots
\* of the detected scheme and the root taken as previously active, which the
\* Active flag names, is the other one.
C37_TargetAndRollbackDiffer ==
    (run.kind = "update" /\ run.scheme # NoScheme)
        => LET roots == {run.scheme.Root1Partition, run.scheme.Root2Partition}
           IN  /\ run.scheme = SchemeOf(run.device)
               /\ run.Target \in roots
               /\ ActiveRootOf(run) \in roots \ {run.Target}

\* an update whose detection fell back to Root2 and that wrote the boot entries
C37_Witness ==
    /\ At("update", "done") /\ "bootloader" \in obs.passed
    /\ "Defaulting to root2 as target" \in obs.warnings
    /\ run.Target = run.scheme.Root2Partition /\ run.Active

\* an update that found Root2 active and has Root1 as its target
C37_WitnessRoot1 ==
    /\ run.kind = "update" /\ run.scheme # NoScheme
    /\ run.Target = run.scheme.Root1Partition /\ ~run.Active

\* the default entry: the first menuentry of grub.cfg, or bootc.conf
CurrentEntry(d) ==
    IF d.boot.loader THEN d.boot.bootc
    ELSE IF d.boot.grubCfg # <<>> THEN d.boot.grubCfg[1] ELSE NoEntry

\* C38: once an update has reported success, the kernel of the default boot
\* entry is of the version the image extracted onto the target ships, also
\* when the boot partition holds kernels of earlier images.
C38_CurrentEntryKernelOfNewImage ==
    (run.kind = "update" /\ obs.complete = "success")
        => CurrentEntry(disk).linux = disk.root[TargetPart].image.kver

\* an installation put a bootloader and its configuration in place
BootloaderInstalled(d) ==
    \/ d.boot.family = "grub2" /\ d.boot.grubCfg # <<>>
    \/ d.boot.family = "systemd-boot" /\ d.boot.bootc # NoEntry

\* C39: when an update of an installed disk comes to regenerate the boot
\* entries, the family it detects is the one Install put in place and every
\* config.json on the disk records, whatever the installed image had under
\* /boot.
C39_UpdateKeepsFamily ==
    (At("update", "bootloader") /\ BootloaderInstalled(disk))
        => /\ detectBootloaderType(disk.boot) = disk.boot.family
           /\ \A n \in {3, 4} :
                 disk.root[n].config # NoConfig
                   => detectBootloaderType(disk.boot) = disk.root[n].config.BootloaderType

\* the errors with which InstallComplete and PerformUpdate return before or
\* at the confirmation
EarlyErrors ==
    { "missing required tools", "disk validation failed", "failed to access image",
      "installation cancelled by user", "failed to detect partition scheme",
      "update cancelled by user" }

\* a run for real that got past the confirmation has returned; an
\* installation is one with JSON output (Update does not look at the format)
ReturnedPastConfirmation ==
    /\ run.kind \in {"install", "update"} /\ run.pc = "done" /\ ~run.dryRun
    /\ run.err \notin EarlyErrors
    /\ run.kind = "install" => run.json

\* C40: when a non-dry-run InstallComplete or PerformUpdate that got past
\* the confirmation has returned, Output.Complete was called exactly once,
\* with success exactly when the run returned no error, and the OutputWriter
\* was not called again after it; in JSON mode every such call is one event.
C40_OneCompleteEventLast ==
    ReturnedPastConfirmation
        => /\ obs.completes = 1
           /\ obs.complete = "success" <=> run.err = ""
           /\ ~obs.later

---------------------------------------------------------------------------
(* The stand-alone target detection: a partitioned disk, a kernel command  *)
(* line and the two failures of the environment are drawn, and one call of *)
(* GetInactiveRootPartition is applied to them.                            *)

\* a disk CreatePartitions has partitioned, the first made of its partitions
\* carrying a filesystem
PartitionedDisk(device, made) ==
    [BlankDisk EXCEPT !.nodes = {KernelNode(device, n) : n \in PartNums},
                      !.fs = [n \in PartNums |-> n <= made]]

\* the root= fields a kernel command line may carry
RootToks ==
    {Tok("root=UUID=", UuidOf(n)) : n \in {3, 4, 5}}
    \cup {Tok("root=UUID=", "uuid-gone")}
    \cup {DevTok(KernelNode(dv, n)) : dv \in Devices, n \in {3, 4}}

\* the /proc/cmdline contents drawn: no root field, one unrecognised, one
\* alone, one among other fields, two in a row
DetectCmdlines ==
    {<<>>, LiveCmdline, <<Tok("root=LABEL=", "root1")>>}
    \cup {<<r>> : r \in RootToks}
    \cup {<<Tok("quiet", ""), r, Tok("ro", "")>> : r \in RootToks}
    \cup {<<r, q>> : r \in RootToks, q \in RootToks}

DetectCall(readable, blkidOk) ==
    [pc |-> "call", readable |-> readable, blkidOk |-> blkidOk,
     target |-> <<>>, active |-> FALSE, err |-> "", warnings |-> {}]

\* GetInactiveRootPartition(scheme) on the machine as it stands
DetectTargetCall ==
    /\ call.pc = "call"
    /\ LET active == GetActiveRootPartition(sys.cmdline, call.readable, call.blkidOk, disk, sys.device)
           res == GetInactiveRootPartition(SchemeOf(sys.device), active)
       IN  call' = [call EXCEPT !.pc = "returned", !.target = res.target, !.active = res.active,
                                !.err = res.err, !.warnings = res.warnings]
    /\ UNCHANGED <<disk, sys, run, obs>>

InitDetect ==
    /\ \E device \in Devices, made \in 2..5, cmdline \in DetectCmdlines :
          /\ disk = PartitionedDisk(device, made)
          /\ sys = [device |-> device, booted |-> 0, cmdline |-> cmdline, mounts |-> <<>>,
                    installs |-> 0, updates |-> 0, faults |-> 0]
    /\ run = IdleRun
    /\ obs = NoObs
    /\ \E readable \in BOOLEAN, blkidOk \in BOOLEAN : call = DetectCall(readable, blkidOk)

NextDetect == DetectTargetCall

SpecDetect == InitDetect /\ [][NextDetect]_vars

---------------------------------------------------------------------------
(* Properties of the target detection, stated on a returned call of        *)
(* SpecDetect                                                              *)

\* the first field of the command line that starts with root=UUID= or root=/dev/
FirstRootField(cmdline) ==
    cmdline[CHOOSE i \in RootFields(cmdline) : \A j \in RootFields(cmdline) : i <= j]

\* the running kernel's root resolves to partition n of the device: the
\* command line is readable and its first root field names the partition's
\* node, or the UUID of the filesystem on it while blkid works
ResolvesTo(n) ==
    /\ call.readable
    /\ RootFields(sys.cmdline) # {}
    /\ LET f == FirstRootField(sys.cmdline)
       IN  \/ f.key = "root=/dev/" /\ f.path = PartPath(sys.device, n)
           \/ /\ f.key = "root=UUID=" /\ call.blkidOk
              /\ f.val = UuidOf(n) /\ disk.fs[n] /\ PartPath(sys.device, n) \in disk.nodes

\* C2: GetInactiveRootPartition returns Root2 as target when the kernel's
\* root resolves to Root1 and Root1 when it resolves to Root2; in every other
\* case (command line unreadable, no root field, UUID lookup failing, any
\* other device) it returns Root2 with no error and prints a warning.
C2_InactiveRootMapping ==
    call.pc = "returned" =>
        /\ call.err = ""
        /\ ResolvesTo(3) => call.target = PartPath(sys.device, 4)
        /\ ResolvesTo(4) => call.target = PartPath(sys.device, 3)
        /\ (~ResolvesTo(3) /\ ~ResolvesTo(4)) =>
              call.target = PartPath(sys.device, 4) /\ call.warnings # {}

\* a call that found the kernel running from Root2 and chose Root1
C2_Witness ==
    call.pc = "returned" /\ ResolvesTo(4) /\ call.target = PartPath(sys.device, 3)

---------------------------------------------------------------------------
(* The stand-alone partition naming: a device, the state of its five       *)
(* partition paths and how the partitioning goes are drawn; CreatePartitions *)
(* and DetectExistingPartitionScheme are applied, alone or one after the   *)
(* other.                                                                  *)

\* SATA, virtio, NVMe, MMC, loop and software-RAID devices
SchemeDevices ==
    Devices \cup
    { DevDir \o <<"v", "d", "a">>,
      DevDir \o <<"m", "m", "c", "b", "l", "k", "0">>,
      DevDir \o <<"l", "o", "o", "p", "0">>,
      DevDir \o <<"m", "d", "0">> }

NoResult == [err |-> "", scheme |-> NoScheme]

SchemeCall(device, dryRun, outcome, stat) ==
    [pc |-> "start", device |-> device, dryRun |-> dryRun, outcome |-> outcome,
     stat |-> stat, created |-> NoResult, detected |-> NoResult]

\* CreatePartitions(device, dryRun); once the kernel has read the new table
\* the device shows the nodes of its five partitions and no others
CreatePartitionsCall ==
    /\ call.pc = "start"
    /\ call' = [call EXCEPT
                  !.pc = "created",
                  !.created = CreatePartitionsResult(call.device, call.dryRun, call.outcome),
                  !.stat = IF ~call.dryRun /\ call.outcome = "ok"
                           THEN StatNodes(call.device, {KernelNode(call.device, n) : n \in PartNums})
                           ELSE @]
    /\ UNCHANGED <<disk, sys, run, obs>>

\* DetectExistingPartitionScheme(device), on the device as drawn or after
\* CreatePartitions
DetectExistingCall ==
    /\ call.pc \in {"start", "created"}
    /\ call' = [call EXCEPT
                  !.pc = IF @ = "start" THEN "detected" ELSE "redetected",
                  !.detected = DetectExistingPartitionScheme(call.device, call.stat)]
    /\ UNCHANGED <<disk, sys, run, obs>>

InitScheme ==
    /\ disk = BlankDisk
    /\ sys = [device |-> DevDir \o <<"s", "d", "a">>, booted |-> 0,
              cmdline |-> LiveCmdline, mounts |-> <<>>,
              installs |-> 0, updates |-> 0, faults |-> 0]
    /\ run = IdleRun
    /\ obs = NoObs
    /\ \E device \in SchemeDevices, dryRun \in BOOLEAN, outcome \in {"ok", "sgdisk", "probe"},
          stat \in [PartNums -> StatOutcomes] :
          /\ dryRun => outcome = "ok"
          /\ call = SchemeCall(device, dryRun, outcome, stat)

NextScheme == CreatePartitionsCall \/ DetectExistingCall

SpecScheme == InitScheme /\ [][NextScheme]_vars

---------------------------------------------------------------------------
(* Properties of the partition naming, stated on the calls of SpecScheme   *)

\* the devices of the NVMe, MMC and loop families
InfixDevices ==
    { DevDir \o <<"n", "v", "m", "e", "0", "n", "1">>,
      DevDir \o <<"m", "m", "c", "b", "l", "k", "0">>,
      DevDir \o <<"l", "o", "o", "p", "0">> }

\* partition n of a device by the naming convention
ConventionPath(device, n) ==
    IF device \in InfixDevices THEN device \o <<"p", Digit(n)>> ELSE device \o <<Digit(n)>>

ConventionScheme(device) ==
    [ EFIPartition   |-> ConventionPath(device, 1),
      BootPartition  |-> ConventionPath(device, 2),
      Root1Partition |-> ConventionPath(device, 3),
      Root2Partition |-> ConventionPath(device, 4),
      VarPartition   |-> ConventionPath(device, 5) ]

\* C17: DetectExistingPartitionScheme called after a non-dry-run
\* CreatePartitions on the same device that returned without error returns,
\* without error, the five paths CreatePartitions returned, role by role.
C17_DetectAfterCreate ==
    (call.pc = "redetected" /\ ~call.dryRun /\ call.created.err = "")
        => /\ call.detected.err = ""
           /\ call.detected.scheme = call.created.scheme

\* C18: DetectExistingPartitionScheme returns an error and no scheme whenever
\* one of the five partition paths cannot be found, whichever it is; when it
\* returns a scheme all five are there.
C18_DetectFailsClosed ==
    call.pc \in {"detected", "redetected"}
        => /\ (\E n \in PartNums : call.stat[n] # "ok")
                 => (call.detected.err # "" /\ call.detected.scheme = NoScheme)
           /\ call.detected.err = "" => \A n \in PartNums : call.stat[n] = "ok"

\* C19: every scheme CreatePartitions returns, dry-run or not, and every
\* scheme DetectExistingPartitionScheme returns names partition N of the
\* device <device>N, or <device>pN for an NVMe, MMC or loop device.
C19_NamingConvention ==
    /\ (call.pc \in {"created", "redetected"} /\ call.created.err = "")
          => call.created.scheme = ConventionScheme(call.device)
    /\ (call.pc \in {"detected", "redetected"} /\ call.detected.err = "")
          => call.detected.scheme = ConventionScheme(call.device)

---------------------------------------------------------------------------
(* The stand-alone kernel refresh: for each kernel version directory of    *)
(* the new root, the files found in it and the state of the two            *)
(* destination files on the boot partition are drawn, and one pass of the  *)
(* loop of InstallKernelAndInitramfs is applied to them.                   *)
(*                                                                         *)
(* A source file is given by its size, 0 when the path is not there.  A    *)
(* destination is 0 when absent, -1 when the name is there but os.Stat of  *)
(* it fails (a link whose target is gone), else its size.                  *)

MaxSize == 2

\* what the two kernel paths of a version directory may hold, in the order
\* tried: vmlinuz, vmlinuz-<version>
KernelSrcs == { <<0, 0>>, <<1, 0>>, <<0, 2>>, <<2, 1>> }

\* what the four initramfs paths may hold, in the order tried: initramfs.img,
\* initrd.img, initramfs-<version>.img, initrd.img-<version>
InitrdSrcs == { <<0, 0, 0, 0>>, <<1, 0, 0, 0>>, <<0, 0, 2, 0>>, <<0, 2, 0, 1>> }

DstStates == (-1)..MaxSize

\* the first path of a pattern list that is there, 0 if none
FirstFound(sizes) ==
    LET found == {i \in DOMAIN sizes : sizes[i] # 0}
    IN  IF found = {} THEN 0 ELSE CHOOSE i \in found : \A j \in found : i <= j

\* a refresh that copies every kernel it finds
KernelAlwaysCopied(dstKernel, srcSize) == TRUE

\* needsCopy of the kernel: the name is not among the existing vmlinuz-*
\* files, or the sizes differ
KernelNeedsCopy(dstKernel, srcSize) ==
    IF dstKernel = 0 THEN TRUE ELSE srcSize # dstKernel

\* needsCopy of the initramfs: os.Stat of the destination says it does not
\* exist, or succeeds with another size
InitramfsNeedsCopy(dstInitrd, srcSize) ==
    LET err == CASE dstInitrd = 0 -> "ENOENT" [] dstInitrd = -1 -> "ELOOP" [] OTHER -> ""
    IN  IF IsNotExist(err) THEN TRUE ELSE err = "" /\ srcSize # dstInitrd

NoRefresh == [kernel |-> 0, initrd |-> 0, log |-> {}, copied |-> {}, err |-> ""]

\* one pass of the loop over the version directories; fails: how many of the
\* copies of this pass fail (the first one, if any)
RefreshVersion(src, dst, fails) ==
    LET k == FirstFound(src.kernel)
        srcKernel == IF k = 0 THEN 0 ELSE src.kernel[k]
        kCopy == KernelNeedsCopy(dst.kernel, srcKernel)
        kLog == IF ~kCopy THEN {}
                ELSE IF dst.kernel = 0 THEN {"Found new kernel"} ELSE {"Kernel has changed, updating"}
        i == FirstFound(src.initrd)
        srcInitrd == IF i = 0 THEN 0 ELSE src.initrd[i]
        iCopy == i # 0 /\ InitramfsNeedsCopy(dst.initrd, srcInitrd)
        iLog == IF ~iCopy THEN {}
                ELSE IF dst.initrd = 0 THEN {"Found new initramfs"} ELSE {"Initramfs has changed, updating"}
        iFails == iCopy /\ fails > 0 /\ ~kCopy
    IN  IF k = 0 THEN [NoRefresh EXCEPT !.kernel = dst.kernel, !.initrd = dst.initrd]
        ELSE IF dst.kernel = -1
        THEN [NoRefresh EXCEPT !.kernel = dst.kernel, !.initrd = dst.initrd,
                               !.err = "panic: nil pointer dereference"]
        ELSE IF kCopy /\ fails > 0
        THEN [NoRefresh EXCEPT !.kernel = dst.kernel, !.initrd = dst.initrd, !.log = kLog,
                               !.err = "failed to copy kernel"]
        ELSE [kernel |-> IF kCopy THEN srcKernel ELSE dst.kernel,
              initrd |-> IF iCopy /\ ~iFails THEN srcInitrd ELSE dst.initrd,
              log |-> kLog \cup iLog
                      \cup (IF kCopy THEN {"Installed kernel"} ELSE {})
                      \cup (IF iCopy /\ ~iFails THEN {"Installed initramfs"} ELSE {}),
              copied |-> (IF kCopy THEN {"kernel"} ELSE {})
                         \cup (IF iCopy /\ ~iFails THEN {"initramfs"} ELSE {}),
              err |-> IF iFails THEN "failed to copy initramfs" ELSE ""]

RefreshCall ==
    [pc |-> "loop", ver |-> 0, src |-> [kernel |-> <<0, 0>>, initrd |-> <<0, 0, 0, 0>>],
     dst |-> [kernel |-> 0, initrd |-> 0], out |-> NoRefresh,
     copiedKernel |-> FALSE, copiedInitramfs |-> FALSE, log |-> {}, err |-> ""]

\* the loop body for the next version directory
RefreshNextVersion ==
    /\ call.pc = "loop" /\ call.err = "" /\ call.ver < MaxKver
    /\ \E kernel \in KernelSrcs, initrd \in InitrdSrcs, dk \in DstStates, di \in DstStates,
          fails \in 0..1 :
          LET src == [kernel |-> kernel, initrd |-> initrd]
              dst == [kernel |-> dk, initrd |-> di]
              out == RefreshVersion(src, dst, fails)
          IN  /\ fails > 0 => out.err \in {"failed to copy kernel", "failed to copy initramfs"}
              /\ call' = [call EXCEPT !.ver = @ + 1, !.src = src, !.dst = dst, !.out = out,
                                      !.copiedKernel = @ \/ "kernel" \in out.copied,
                                      !.copiedInitramfs = @ \/ "initramfs" \in out.copied,
                                      !.log = out.log, !.err = out.err]
    /\ UNCHANGED <<disk, sys, run, obs>>

\* the end of InstallKernelAndInitramfs: after the last directory, or with
\* the error of a pass
RefreshReturn ==
    /\ call.pc = "loop" /\ (call.err # "" \/ call.ver = MaxKver)
    /\ call' = [call EXCEPT
                  !.pc = "returned",
                  !.log = IF call.err = "" /\ ~call.copiedKernel /\ ~call.copiedInitramfs
                          THEN @ \cup {"Kernel and initramfs are up to date"} ELSE @]
    /\ UNCHANGED <<disk, sys, run, obs>>

InitRefresh ==
    /\ disk = BlankDisk
    /\ sys = [device |-> DevDir \o <<"s", "d", "a">>, booted |-> 0,
              cmdline |-> LiveCmdline, mounts |-> <<>>,
              installs |-> 0, updates |-> 0, faults |-> 0]
    /\ run = IdleRun
    /\ obs = NoObs
    /\ call = RefreshCall

NextRefresh == RefreshNextVersion \/ RefreshReturn

SpecRefresh == InitRefresh /\ [][NextRefresh]_vars

---------------------------------------------------------------------------
(* Properties of the kernel refresh, stated on a pass of SpecRefresh       *)

\* the pass found a kernel and came to the comparison of the kernel files
KernelCompared == call.ver > 0 /\ FirstFound(call.src.kernel) # 0 /\ call.dst.kernel # -1

SrcKernelSize == call.src.kernel[FirstFound(call.src.kernel)]

\* the pass came to the comparison of the initramfs files
InitrdCompared ==
    /\ KernelCompared /\ call.err # "failed to copy kernel"
    /\ FirstFound(call.src.initrd) # 0

SrcInitrdSize == call.src.initrd[FirstFound(call.src.initrd)]

\* C22: in a pass of the kernel refresh, a kernel or initramfs file has been
\* copied only when the destination was absent or of another size than the
\* source; when the two sizes were equal, the destination is as it was and
\* the pass has logged no "Installed" event for that file.
C22_CopyOnlyOnSizeChange ==
    /\ KernelCompared =>
          /\ ("kernel" \in call.out.copied \/ "Installed kernel" \in call.log)
                => (call.dst.kernel = 0 \/ call.dst.kernel # SrcKernelSize)
          /\ call.dst.kernel = SrcKernelSize
                => /\ "kernel" \notin call.out.copied
                   /\ "Installed kernel" \notin call.log
                   /\ call.out.kernel = call.dst.kernel
    /\ InitrdCompared =>
          /\ ("initramfs" \in call.out.copied \/ "Installed initramfs" \in call.log)
                => (call.dst.initrd = 0 \/ call.dst.initrd # SrcInitrdSize)
          /\ call.dst.initrd = SrcInitrdSize
                => /\ "initramfs" \notin call.out.copied
                   /\ "Installed initramfs" \notin call.log
                   /\ call.out.initrd = call.dst.initrd

\* a pass that found both files at the destination with the sizes of the
\* sources and copied neither, and one before it that copied
C22_Witness ==
    /\ call.pc = "returned" /\ call.ver = 2 /\ call.err = ""
    /\ InitrdCompared
    /\ call.dst.kernel = SrcKernelSize /\ call.dst.initrd = SrcInitrdSize
    /\ call.out.copied = {} /\ call.copiedKernel

---------------------------------------------------------------------------
(* Properties of the /etc merge, stated on a returned call of SpecMerge    *)

Merged == call.pc = "returned" /\ call.store.exists

\* what reading path p of tree t yields: 0 when nothing can be read there,
\* else the data of the regular file p is or leads to
Content(t, p) ==
    IF ~DirsOk(t, p) THEN 0
    ELSE CASE t[p].kind = "file" -> t[p].data
           [] t[p].kind = "link" -> LinkData(t, t[p])
           [] OTHER -> 0

\* C8: the merge leaves every path that /var/etc already had, and whose name
\* is not on the always-refresh list, exactly as it was: still there, with
\* the same entry, whatever the image ships at that path.
C8_ExistingPathsUntouched ==
    Merged =>
        \A p \in EtcPaths :
            (call.store.tree[p].kind # "none" /\ BaseName(p) \notin SystemFiles)
                => call.out.tree[p] = call.store.tree[p]

\* C9: after the merge, a path of /var/etc whose name is on the always-refresh
\* list and that the image ships as a regular file reads as the image's copy,
\* whatever /var/etc held at it before.
C9_SystemFilesOverwritten ==
    Merged =>
        \A p \in EtcPaths :
            (BaseName(p) \in SystemFiles /\ call.img[p].kind = "file")
                => Content(call.out.tree, p) = call.img[p].data

\* C10: after a merge that returned without error, every path the image ships
\* and /var/etc lacked is in /var/etc: a directory where the image has a
\* directory, else readable with the data the image's entry reads as.
C10_NewPathsCopied ==
    (Merged /\ call.err = "") =>
        \A p \in EtcPaths :
            (call.img[p].kind # "none" /\ call.store.tree[p].kind = "none")
                => /\ call.out.tree[p].kind # "none"
                   /\ call.img[p].kind = "dir" => call.out.tree[p].kind = "dir"
                   /\ call.img[p].kind = "file" => Content(call.out.tree, p) = call.img[p].data

\* C11: the merge is idempotent: a second merge of the same image's /etc into
\* the /var/etc the first merge left changes nothing in it.
C11_MergeIdempotent ==
    call.pc = "again" => call.again = call.out

---------------------------------------------------------------------------
(* The stand-alone size path of an installation: a disk of a drawn size is *)
(* validated, wiped and partitioned one sgdisk command at a time.  Sizes   *)
(* are whole gigabytes; the space the partition table itself takes is left *)
(* out.                                                                    *)

MaxDiskSize == 64

\* the minSize InstallComplete hands to ValidateDisk
InstallMinSize == 10

\* the minimum disk size the README states
DocumentedMinSize == 50

\* the sizes of the --new commands of CreatePartitions: EFI, boot, root1,
\* root2; the fifth takes what is left
PartitionSizes == <<2, 1, 20, 20>>

\* the size test of ValidateDisk
DiskBigEnough(size, minSize) == size >= minSize

SizeCall(size) ==
    [pc |-> "validate", size |-> size, free |-> size, parts |-> 0,
     wiped |-> FALSE, err |-> ""]

\* InstallComplete validates the disk against its minimum
SizeValidate ==
    /\ call.pc = "validate"
    /\ call' = IF DiskBigEnough(call.size, InstallMinSize)
               THEN [call EXCEPT !.pc = "wipe"]
               ELSE [call EXCEPT !.pc = "returned", !.err = "disk too small"]
    /\ UNCHANGED <<disk, sys, run, obs>>

\* Install wipes the validated disk; sgdisk --clear then writes an empty table
SizeWipe ==
    /\ call.pc = "wipe"
    /\ call' = [call EXCEPT !.pc = "sgdisk", !.wiped = TRUE]
    /\ UNCHANGED <<disk, sys, run, obs>>

\* the next --new command of CreatePartitions: a sized partition needs its
\* size in free space, the last one some free space; the first command to
\* fail ends the installation
SgdiskNew ==
    /\ call.pc = "sgdisk"
    /\ LET n == call.parts + 1
           want == IF n <= Len(PartitionSizes) THEN PartitionSizes[n] ELSE 1
           got == IF n <= Len(PartitionSizes) THEN PartitionSizes[n] ELSE call.free
       IN  call' = IF call.free >= want
                   THEN [call EXCEPT !.parts = n, !.free = @ - got,
                                     !.pc = IF n = 5 THEN "returned" ELSE @]
                   ELSE [call EXCEPT !.pc = "returned", !.err = "failed to run sgdisk"]
    /\ UNCHANGED <<disk, sys, run, obs>>

InitSize ==
    /\ disk = BlankDisk
    /\ sys = [device |-> DevDir \o <<"s", "d", "a">>, booted |-> 0,
              cmdline |-> LiveCmdline, mounts |-> <<>>,
              installs |-> 0, updates |-> 0, faults |-> 0]
    /\ run = IdleRun
    /\ obs = NoObs
    /\ \E size \in 0..MaxDiskSize : call = SizeCall(size)

NextSize == SizeValidate \/ SizeWipe \/ SgdiskNew

SpecSize == InitSize /\ [][NextSize]_vars

---------------------------------------------------------------------------
(* Properties of the size path, stated on the calls of SpecSize            *)

\* C30: the size validation of Install rejects every disk smaller than the
\* documented minimum of 50 GB, and a disk that passed it and was wiped is
\* never found too small for a partition of the layout.
C30_ValidatedDiskFits ==
    /\ (call.pc # "validate" /\ call.size < DocumentedMinSize) => call.err = "disk too small"
    /\ call.wiped => call.err = ""

---------------------------------------------------------------------------
(* The stand-alone OutputWriter: a writer of a drawn format receives a     *)
(* bounded sequence of calls.  call holds the writer's fields and hist, the *)
(* calls made so far, each with the event it emitted as a reader of the    *)
(* JSON line decodes it (a field left out by omitempty reads as its zero   *)
(* value) and the writer's phase, step and totalSteps after it.  The step  *)
(* name and the timestamp are left out.                                    *)

MaxCalls == 4

MaxStep == 4

OutputPhases == {"install", "update"}

OutputTotals == {0, 3, 7}

OutputMessages == {"a", "b"}

\* the / of Go on int: the quotient truncated toward zero
GoDiv(a, b) ==
    LET q == (IF a < 0 THEN -a ELSE a) \div (IF b < 0 THEN -b ELSE b)
    IN  IF (a < 0) = (b < 0) THEN q ELSE -q

\* a progress computed from the step before the current one
calculateProgressOfPrevious(step, totalSteps) ==
    IF totalSteps = 0 THEN 0 ELSE GoDiv((step - 1) * 100, totalSteps)

calculateProgress(step, totalSteps) ==
    IF totalSteps = 0 THEN 0 ELSE GoDiv(step * 100, totalSteps)

NoEvent ==
    [type |-> "none", phase |-> "", step |-> 0, totalSteps |-> 0, status |-> "",
     progress |-> 0, logs |-> <<>>]

\* NewOutputWriter
NewOutputWriter(format) ==
    [format |-> format, phase |-> "", step |-> 0, totalSteps |-> 0, logs |-> <<>>,
     hist |-> <<>>]

\* emitJSON of an event by writer w, in JSON format only
Emitted(w, event) == IF w.format = "json" THEN event ELSE NoEvent

\* the writer after a call: w with the call appended to its history
Called(w, op, msg, event) ==
    [w EXCEPT !.hist = Append(@, [op |-> op, msg |-> msg, ev |-> Emitted(w, event),
                                  phase |-> w.phase, step |-> w.step,
                                  totalSteps |-> w.totalSteps])]

OutputSetPhase ==
    /\ Len(call.hist) < MaxCalls
    /\ \E phase \in OutputPhases, totalSteps \in OutputTotals :
          call' = Called([call EXCEPT !.phase = phase, !.totalSteps = totalSteps, !.step = 0],
                         "SetPhase", <<>>, NoEvent)
    /\ UNCHANGED <<disk, sys, run, obs>>

OutputPhaseStart ==
    /\ Len(call.hist) < MaxCalls
    /\ \E step \in 0..MaxStep :
          LET w == [call EXCEPT !.step = step, !.logs = <<>>]
          IN  call' = Called(w, "PhaseStart", <<>>,
                             [type |-> "phase_start", phase |-> w.phase, step |-> step,
                              totalSteps |-> w.totalSteps, status |-> "in_progress",
                              progress |-> calculateProgress(w.step, w.totalSteps),
                              logs |-> <<>>])
    /\ UNCHANGED <<disk, sys, run, obs>>

OutputPhaseComplete ==
    /\ Len(call.hist) < MaxCalls
    /\ \E step \in {1, call.step} :
          call' = Called(call, "PhaseComplete", <<>>,
                         [type |-> "phase_complete", phase |-> call.phase, step |-> step,
                          totalSteps |-> call.totalSteps, status |-> "completed",
                          progress |-> calculateProgress(call.step, call.totalSteps),
                          logs |-> call.logs])
    /\ UNCHANGED <<disk, sys, run, obs>>

\* the body shared by Log, Warning and Error: the entry is appended, then the
\* event is emitted with the list
Recording(op, type, status, entry) ==
    LET w == [call EXCEPT !.logs = Append(@, entry)]
    IN  call' = Called(w, op, entry,
                       [type |-> type, phase |-> w.phase, step |-> w.step,
                        totalSteps |-> w.totalSteps, status |-> status,
                        progress |-> calculateProgress(w.step, w.totalSteps),
                        logs |-> w.logs])

OutputLog ==
    /\ Len(call.hist) < MaxCalls
    /\ \E message \in OutputMessages : Recording("Log", "log", "in_progress", <<message>>)
    /\ UNCHANGED <<disk, sys, run, obs>>

OutputWarning ==
    /\ Len(call.hist) < MaxCalls
    /\ Recording("Warning", "warning", "in_progress", <<"WARNING: ", "a">>)
    /\ UNCHANGED <<disk, sys, run, obs>>

OutputError ==
    /\ Len(call.hist) < MaxCalls
    /\ Recording("Error", "error", "failed", <<"ERROR: ", "a">>)
    /\ UNCHANGED <<disk, sys, run, obs>>

OutputComplete ==
    /\ Len(call.hist) < MaxCalls
    /\ \E success \in BOOLEAN :
          call' = Called(call, "Complete", <<>>,
                         [type |-> "complete", phase |-> call.phase, step |-> 0,
                          totalSteps |-> 0,
                          status |-> IF success THEN "success" ELSE "failed",
                          progress |-> calculateProgress(call.step, call.totalSteps),
                          logs |-> call.logs])
    /\ UNCHANGED <<disk, sys, run, obs>>

InitOutput ==
    /\ disk = BlankDisk
    /\ sys = [device |-> DevDir \o <<"s", "d", "a">>, booted |-> 0,
              cmdline |-> LiveCmdline, mounts |-> <<>>,
              installs |-> 0, updates |-> 0, faults |-> 0]
    /\ run = IdleRun
    /\ obs = NoObs
    /\ \E format \in {"text", "json"} : call = NewOutputWriter(format)

NextOutput ==
    \/ OutputSetPhase \/ OutputPhaseStart \/ OutputPhaseComplete
    \/ OutputLog \/ OutputWarning \/ OutputError \/ OutputComplete

SpecOutput == InitOutput /\ [][NextOutput]_vars

---------------------------------------------------------------------------
(* Properties of the OutputWriter, stated on the histories of SpecOutput   *)

\* the calls that emitted an event
EventCalls == {i \in 1..Len(call.hist) : call.hist[i].ev.type # "none"}

\* calls i < j are PhaseStart calls of the same phase with no SetPhase between
SamePhaseStarts(i, j) ==
    /\ i < j
    /\ call.hist[i].op = "PhaseStart" /\ call.hist[j].op = "PhaseStart"
    /\ \A k \in i..j : call.hist[k].op # "SetPhase"

RecordOps == {"Log", "Warning", "Error"}

\* the last PhaseStart among the first i calls, 0 when there is none
LastStart(i) ==
    LET starts == {k \in 1..i : call.hist[k].op = "PhaseStart"}
    IN  IF starts = {} THEN 0 ELSE CHOOSE k \in starts : \A m \in starts : m <= k

\* the calls among the first i that recorded a message after the last PhaseStart
RecordersSince(i) == {k \in (LastStart(i) + 1)..i : call.hist[k].op \in RecordOps}

\* their messages, in call order
RecordedSince(i) ==
    LET recs == SelectSeq(SubSeq(call.hist, LastStart(i) + 1, i),
                          LAMBDA h : h.op \in RecordOps)
    IN  [k \in 1..Len(recs) |-> recs[k].msg]

\* the logs of every event are the messages recorded since the last PhaseStart
LogsSinceLastStart == \A i \in EventCalls : call.hist[i].ev.logs = RecordedSince(i)

\* C32: the logs carried by an event are the messages recorded by Log,
\* Warning and Error since the most recent PhaseStart, in call order, and
\* every one of them was recorded in the phase and step the writer is in when
\* the event is emitted: logs of an earlier step or phase are not carried.
C32_LogsOfCurrentStep ==
    /\ LogsSinceLastStart
    /\ \A i \in EventCalls : \A k \in RecordersSince(i) :
          /\ call.hist[k].phase = call.hist[i].phase
          /\ call.hist[k].step = call.hist[i].step

---------------------------------------------------------------------------
(* The stand-alone device derivation of MergeEtcFromActive: a device of    *)
(* each family and the root that is active are drawn; the device is        *)
(* derived from the active root's path, its scheme detected on the machine *)
(* holding the partitioned device, and the var partition mounted.          *)

\* devices of the sdX, vdX, NVMe, MMC and loop families, some with a name
\* that ends in 2 or 3
DeriveDevices ==
    { DevDir \o <<"s", "d", x>> : x \in {"a", "b", "c", "d"} }
    \cup { DevDir \o <<"v", "d", x>> : x \in {"a", "b", "c"} }
    \cup { DevDir \o <<"n", "v", "m", "e", "0", "n", x>> : x \in {"1", "2", "3"} }
    \cup { DevDir \o <<"m", "m", "c", "b", "l", "k", x>> : x \in {"0", "1", "2", "3"} }
    \cup { DevDir \o <<"l", "o", "o", "p", x>> : x \in {"0", "1", "2", "3"} }

DeriveCallOf(device, active) ==
    [pc |-> "start", device |-> device, Active |-> active, derived |-> <<>>,
     scheme |-> NoScheme, var |-> <<>>, err |-> ""]

\* the suffix loop of MergeEtcFromActive on the active root of the detected scheme
DeriveStep ==
    /\ call.pc = "start"
    /\ call' = [call EXCEPT
                  !.pc = "derived",
                  !.derived = DeriveDevice(ActiveRootOf([Active |-> call.Active,
                                                         scheme |-> SchemeOf(call.device)]))]
    /\ UNCHANGED <<disk, sys, run, obs>>

\* DetectExistingPartitionScheme(device) on the machine
DeriveDetect ==
    /\ call.pc = "derived"
    /\ LET det == DetectExistingPartitionScheme(call.derived, StatNodes(call.derived, disk.nodes))
       IN  call' = IF det.err # ""
                   THEN [call EXCEPT !.pc = "returned", !.err = "failed to detect partition scheme"]
                   ELSE [call EXCEPT !.pc = "detected", !.scheme = det.scheme]
    /\ UNCHANGED <<disk, sys, run, obs>>

\* mount scheme.VarPartition /tmp/phukit-var-merge
DeriveMountVar ==
    /\ call.pc = "detected"
    /\ call' = IF call.scheme.VarPartition \in disk.nodes
               THEN [call EXCEPT !.pc = "returned", !.var = call.scheme.VarPartition]
               ELSE [call EXCEPT !.pc = "returned", !.err = "failed to mount /var partition"]
    /\ UNCHANGED <<disk, sys, run, obs>>

InitDerive ==
    /\ sys = [device |-> DevDir \o <<"s", "d", "a">>, booted |-> 0,
              cmdline |-> LiveCmdline, mounts |-> <<>>,
              installs |-> 0, updates |-> 0, faults |-> 0]
    /\ run = IdleRun
    /\ obs = NoObs
    /\ \E device \in DeriveDevices, active \in BOOLEAN :
          /\ disk = PartitionedDisk(device, 5)
          /\ call = DeriveCallOf(device, active)

NextDerive == DeriveStep \/ DeriveDetect \/ DeriveMountVar

SpecDerive == InitDerive /\ [][NextDerive]_vars

---------------------------------------------------------------------------
(* Properties of the device derivation, stated on the calls of SpecDerive  *)

\* C36: whichever root is active and whatever the family and name of the
\* device, the device MergeEtcFromActive derives from the active root's path
\* is the device being updated, and the var partition it mounts is the var
\* partition of that device's scheme.
C36_DerivedDeviceIsUpdated ==
    /\ call.pc # "start" => call.derived = call.device
    /\ call.pc = "returned"
          => call.err = "" /\ call.var = SchemeOf(call.device).VarPartition

====
